---- MODULE Spec2Model ----
(***************************************************************************)
(* PROOV_ZK: capsule construction, private vault and claim revision.       *)
(*                                                                         *)
(* Strings are TLA+ strings; a character is a string of length 1 and its   *)
(* UTF-16 code is looked up in CharCodeTable.  A JavaScript value that may *)
(* be null/undefined is a sequence of length 0 (None) or 1 (Some(x)); a    *)
(* string that the code only tests for truthiness is "" when absent.       *)
(* A JavaScript object used as a map (Record<string, string>) is a         *)
(* function whose domain is its set of keys.                               *)
(* A time stamp in milliseconds since the epoch does not fit a 32-bit      *)
(* integer: it is the pair <<seconds, milliseconds>>.                      *)
(***************************************************************************)
EXTENDS Integers, Sequences, FiniteSets, TLC

VARIABLES
    clock,            \* index in ClockTimes of the value Date.now() returns
    metadata,         \* make screen: PhotoMetadata | null (prop of ZKGen)
    privacySettings,  \* make screen: PrivacySettings (prop of ZKGen)
    pc,               \* position of generateZKProof
    gen,              \* local variables of the running generateZKProof
    isGeneratingProof,
    generatedCapsule, \* ZKGen state: ZKCapsule | null
    alerts,           \* Alert.alert calls of the current generation
    vaults,           \* AsyncStorage: capsule id -> '@private_vault_<id>'
    photos,           \* AsyncStorage: '@zk_verified_photos' (null | list)
    generations,      \* number of generation events started
    faults,           \* number of failures the environment has injected
    history,          \* facts about past steps, recorded for the properties
    platformOS,       \* Platform.OS of the device
    currentStep,      \* make screen: 'loading' | 'settings' | 'proof'
    probe,            \* inputs and outputs of a pure function under check
    gallery,          \* GalleryScreen state: photos, selectedPhoto, ...
    modal,            \* PhotoDetailsModal state (mounted while a photo is selected)
    save,             \* local variables of the running saveChanges
    verify,           \* VerifyScreen state: proofData, verificationResult, ...
    vproof,           \* local variables of the running verifyProof
    refresh,          \* the checkTimeLockStatus the timer started, while it runs
    globalClock,      \* index in ClockTimes of the time the time servers report
    wallet,           \* local variables of the running connectWallet
    market,           \* VerifyScreen offers state and AsyncStorage '@offers_<id>'
    timeSync,         \* local variables of the running fetchGlobalTime
    capture           \* make screen: scheduled camera launches and open cameras

vars == <<clock, metadata, privacySettings, pc, gen, isGeneratingProof,
          generatedCapsule, alerts, vaults, photos, generations, faults,
          history, platformOS, currentStep, probe, gallery, modal, save,
          verify, vproof, refresh, globalClock, wallet, market, timeSync, capture>>

\* wallet connection, offers, time synchronisation and camera launches
sessionVars == <<wallet, market, timeSync, capture>>

\* the state of the verify screen and of the time source it consults
verifyVars == <<verify, vproof, refresh, globalClock, sessionVars>>

None == <<>>
Some(x) == <<x>>

(***************************************************************************)
(* Characters and numbers                                                  *)
(***************************************************************************)
\* the printable characters 32..95 and 97..126 (the backquote, 96, occurs in no string)
AsciiLow == " !" \o "\"" \o "#$%&'" \o "(" \o ")" \o "*" \o "+,-./0123456789:;<=>?@"
            \o "ABCDEFGHIJKLMNOPQRSTUVWXYZ[" \o "\\" \o "]^_"
AsciiHigh == "abcdefghijklmnopqrstuvwxyz{|}~"

CharCodeTable ==
    [c \in {SubSeq(AsciiLow, i, i) : i \in 1..Len(AsciiLow)}
            \cup {SubSeq(AsciiHigh, i, i) : i \in 1..Len(AsciiHigh)} |->
        IF \E i \in 1..Len(AsciiLow) : SubSeq(AsciiLow, i, i) = c
        THEN 31 + (CHOOSE i \in 1..Len(AsciiLow) : SubSeq(AsciiLow, i, i) = c)
        ELSE 96 + (CHOOSE i \in 1..Len(AsciiHigh) : SubSeq(AsciiHigh, i, i) = c)]

charCodeAt(s, i) == CharCodeTable[SubSeq(s, i, i)]

HexDigit(d) == SubSeq("0123456789abcdef", d + 1, d + 1)

RECURSIVE NatToHex(_)
NatToHex(n) == IF n < 16 THEN HexDigit(n)
               ELSE NatToHex(n \div 16) \o HexDigit(n % 16)

Hex4(n) == HexDigit(n \div 4096) \o HexDigit((n \div 256) % 16)
           \o HexDigit((n \div 16) % 16) \o HexDigit(n % 16)

RECURSIVE NatToString(_)
NatToString(n) == IF n < 10 THEN HexDigit(n)
                  ELSE NatToString(n \div 10) \o HexDigit(n % 10)

Pad2(n) == IF n < 10 THEN "0" \o NatToString(n) ELSE NatToString(n)
Pad3(n) == IF n < 10 THEN "00" \o NatToString(n)
           ELSE IF n < 100 THEN "0" \o NatToString(n) ELSE NatToString(n)

(***************************************************************************)
(* generateSimpleHash: a 32-bit wrapping hash, kept as the two 16-bit      *)
(* halves <<high, low>> of the unsigned word so that no intermediate       *)
(* result leaves the 32-bit range.                                         *)
(***************************************************************************)
\* hash = ((hash << 5) - hash) + char; hash = hash & hash
HashStep(h, char) ==
    LET low  == h[2] * 31 + char
        high == h[1] * 31 + (low \div 65536)
    IN  <<high % 65536, low % 65536>>

\* the loop over the characters, from the i-th on, h being the hash so far
HashLoop[h \in Nat \X Nat, input \in STRING, i \in Nat] ==
    IF i > Len(input) THEN h
    ELSE HashLoop[HashStep(h, charCodeAt(input, i)), input, i + 1]

\* Math.abs of the signed 32-bit word, again as <<high, low>>
MathAbs(h) ==
    IF h[1] < 32768 THEN h
    ELSE IF h[2] = 0 THEN <<65536 - h[1], 0>>
    ELSE <<65535 - h[1], 65536 - h[2]>>

\* Number.prototype.toString(16)
ToString16(h) == IF h[1] = 0 THEN NatToHex(h[2])
                 ELSE NatToHex(h[1]) \o Hex4(h[2])

generateSimpleHash(input) == ToString16(MathAbs(HashLoop[<<0, 0>>, input, 1]))

poseidonCommitment(value, salt) == generateSimpleHash(value \o salt)

(***************************************************************************)
(* JavaScript Date.  The device's time zone is UTC and its locale en-US:   *)
(* both are settings of the environment, fixed here.                       *)
(***************************************************************************)
TimeLess(t1, t2) == t1[1] < t2[1] \/ (t1[1] = t2[1] /\ t1[2] < t2[2])
TimeLeq(t1, t2) == t1 = t2 \/ TimeLess(t1, t2)

\* Date.now().toString(), timestamp.toString()
TimeToString(t) == NatToString(t[1]) \o Pad3(t[2])

DayNumber(t) == t[1] \div 86400
SecondOfDay(t) == t[1] % 86400

\* the civil date of a day number (days since 1970-01-01)
CivilFromDays(days) ==
    LET z   == days + 719468
        era == z \div 146097
        doe == z - era * 146097
        yoe == (doe - doe \div 1460 + doe \div 36524 - doe \div 146096) \div 365
        doy == doe - (365 * yoe + yoe \div 4 - yoe \div 100)
        mp  == (5 * doy + 2) \div 153
        d   == doy - (153 * mp + 2) \div 5 + 1
        m   == IF mp < 10 THEN mp + 3 ELSE mp - 9
        y   == yoe + era * 400 + (IF m <= 2 THEN 1 ELSE 0)
    IN  [year |-> y, month |-> m, day |-> d]

getFullYear(t) == CivilFromDays(DayNumber(t)).year
getHours(t) == SecondOfDay(t) \div 3600
getMinutes(t) == (SecondOfDay(t) \div 60) % 60
getSeconds(t) == SecondOfDay(t) % 60
\* 0 = Sunday; 1970-01-01 was a Thursday
getDay(t) == (DayNumber(t) + 4) % 7

MonthNames == <<"January", "February", "March", "April", "May", "June", "July",
                "August", "September", "October", "November", "December">>

toISOString(t) ==
    LET c == CivilFromDays(DayNumber(t))
    IN  NatToString(c.year) \o "-" \o Pad2(c.month) \o "-" \o Pad2(c.day)
        \o "T" \o Pad2(getHours(t)) \o ":" \o Pad2(getMinutes(t)) \o ":"
        \o Pad2(getSeconds(t)) \o "." \o Pad3(t[2]) \o "Z"

\* date.toLocaleDateString()
toLocaleDateString(t) ==
    LET c == CivilFromDays(DayNumber(t))
    IN  NatToString(c.month) \o "/" \o NatToString(c.day) \o "/" \o NatToString(c.year)

\* date.toLocaleDateString('en-US', { month: 'long', year: 'numeric' })
toLocaleMonthYear(t) ==
    LET c == CivilFromDays(DayNumber(t))
    IN  MonthNames[c.month] \o " " \o NatToString(c.year)

\* date.toLocaleString()
toLocaleString(t) ==
    LET h  == getHours(t)
        h12 == IF h % 12 = 0 THEN 12 ELSE h % 12
    IN  toLocaleDateString(t) \o ", " \o NatToString(h12) \o ":" \o Pad2(getMinutes(t))
        \o ":" \o Pad2(getSeconds(t)) \o (IF h < 12 THEN " AM" ELSE " PM")

\* s.split(',')[0]
RECURSIVE SplitFirst(_, _, _)
SplitFirst(s, sep, i) ==
    IF i > Len(s) THEN s
    ELSE IF SubSeq(s, i, i) = sep THEN SubSeq(s, 1, i - 1)
    ELSE SplitFirst(s, sep, i + 1)

\* s.includes(t)
includes(s, t) == \E i \in 1..(Len(s) - Len(t) + 1) : SubSeq(s, i, i + Len(t) - 1) = t

\* weekStart.setDate(date.getDate() - date.getDay())
WeekStart(t) == <<t[1] - 86400 * getDay(t), t[2]>>

(***************************************************************************)
(* Maps and numbers                                                        *)
(***************************************************************************)
EmptyMap == [k \in {} |-> ""]
Put(m, k, v) == [x \in (DOMAIN m) \cup {k} |-> IF x = k THEN v ELSE m[x]]
\* the statement  if (cond) obj[key] = value
Stmt(cond, key, value) == [on |-> cond, key |-> key, value |-> IF cond THEN value ELSE ""]
\* the object m after a run of such statements in program order: the keys of
\* the statements whose condition held, the last assignment to a key winning
Assign(m, stmts) ==
    LET live == {i \in DOMAIN stmts : stmts[i].on}
        last(k) == CHOOSE i \in live :
                       stmts[i].key = k /\ \A j \in live : stmts[j].key = k => j <= i
    IN  [k \in (DOMAIN m) \cup {stmts[i].key : i \in live} |->
            IF \E i \in live : stmts[i].key = k THEN stmts[last(k)].value ELSE m[k]]
Has(m, k) == k \in DOMAIN m
\* m[k] of a JavaScript object: undefined (falsy, here "") when k is absent
Get(m, k) == IF k \in DOMAIN m THEN m[k] ELSE ""

\* n written with exactly len decimal digits
RECURSIVE PadDigits(_, _)
PadDigits(n, len) == IF len = 0 THEN ""
                     ELSE PadDigits(n \div 10, len - 1) \o HexDigit(n % 10)

RECURSIVE StripTrailingZeros(_)
StripTrailingZeros(s) ==
    IF Len(s) > 0 /\ SubSeq(s, Len(s), Len(s)) = "0"
    THEN StripTrailingZeros(SubSeq(s, 1, Len(s) - 1)) ELSE s

\* A coordinate is a whole number of millionths of a degree.
\* `${x}`: the shortest decimal that round-trips
NumberToString(x) ==
    LET a    == IF x < 0 THEN 0 - x ELSE x
        frac == StripTrailingZeros(PadDigits(a % 1000000, 6))
    IN  (IF x < 0 THEN "-" ELSE "") \o NatToString(a \div 1000000)
        \o (IF frac = "" THEN "" ELSE "." \o frac)

\* x.toFixed(6)
toFixed6(x) ==
    LET a == IF x < 0 THEN 0 - x ELSE x
    IN  (IF x < 0 THEN "-" ELSE "") \o NatToString(a \div 1000000)
        \o "." \o PadDigits(a % 1000000, 6)

(***************************************************************************)
(* Claim Deriver                                                           *)
(***************************************************************************)
generateTimeClaim(timestamp, level) ==
    CASE level = "exact" -> "At " \o toLocaleString(timestamp)
      [] level = "hour"  -> "Within hour of " \o SplitFirst(toLocaleString(timestamp), ",", 1)
                            \o " " \o NatToString(getHours(timestamp)) \o ":00"
      [] level = "day"   -> "On " \o toLocaleDateString(timestamp)
      [] level = "week"  -> "Week of " \o toLocaleDateString(WeekStart(timestamp))
      [] level = "month" -> "In " \o toLocaleMonthYear(timestamp)
      [] level = "year"  -> "In " \o NatToString(getFullYear(timestamp))
      [] OTHER           -> "Within past month"

\* location is None or Some(record)
generateLocationClaim(location, level) ==
    IF location = None THEN "Location not available"
    ELSE LET loc == location[1] IN
      CASE level = "exact"     -> "At " \o toFixed6(loc.latitude) \o ", " \o toFixed6(loc.longitude)
        [] level = "city"      -> IF loc.city # "" THEN loc.city ELSE "In local city"
        [] level = "country"   -> IF loc.country # "" THEN loc.country ELSE "In authorized country"
        [] level = "continent" -> IF loc.continent # "" THEN loc.continent ELSE "In authorized continent"
        [] OTHER               -> IF loc.country # "" THEN "In " \o loc.country ELSE "In authorized region"

generateDeviceClaim(deviceInfo, level) ==
    CASE level = "devicetype" -> "From Phone"
      [] level = "platform"   -> "From " \o (IF includes(deviceInfo, "iOS") THEN "iOS" ELSE "Android") \o " device"
      [] level = "imei"       -> "From device IMEI: " \o SubSeq(generateSimpleHash(deviceInfo), 1,
                                     IF Len(generateSimpleHash(deviceInfo)) < 8
                                     THEN Len(generateSimpleHash(deviceInfo)) ELSE 8) \o "****"
      [] OTHER                -> "From trusted device"

generateImageContentClaim(level, ipfsCid) ==
    CASE level = "none"        -> "Image content private"
      [] level = "description" -> "Image description available"
      [] level = "image"       -> IF ipfsCid # "" THEN "Image available on IPFS" ELSE "Image content revealed"
      [] OTHER                 -> "Image content private"

(***************************************************************************)
(* Salt Generator.  Math.random is the environment: a run of the random    *)
(* source is named by a seed, and the k-th salt drawn from it is written   *)
(* from the length and the digits the source yields.  With seed 1 all      *)
(* salts of a run differ; with a larger seed the source repeats itself     *)
(* every `seed` draws.                                                     *)
(***************************************************************************)
MaxSeed == 2
RandomSeeds == 1..MaxSeed

\* the outcome of the calls of Math.random inside the k-th generateSalt
MathRandom(seed, k) ==
    LET i == k \div seed
    IN  [length |-> 6 + (i % 4), digits |-> (i * 7654321 + 123456) % 1000000]

generateSalt(random) == PadDigits(random.digits, random.length)

SaltKeys == <<"date_exact", "date_day", "date_month", "date_year",
              "location_exact", "location_city", "location_country",
              "location_continent", "device_info", "device_platform",
              "device_type", "image_hash", "image_cid", "time_lock",
              "receiver_lock">>

generateAllSalts(seed) ==
    [key \in {SaltKeys[k] : k \in 1..Len(SaltKeys)} |->
        generateSalt(MathRandom(seed, CHOOSE k \in 1..Len(SaltKeys) : SaltKeys[k] = key))]

(***************************************************************************)
(* Commitment Builder and Capsule Assembler                                *)
(***************************************************************************)
Truthy(str) == str # ""

generateCommitments(md, salts, os) ==
    LET date  == md.timestamp
        loc   == md.location[1]
        locOn == md.location # None
    IN  Assign(EmptyMap, <<
          Stmt(TRUE, "date_exact", poseidonCommitment(toISOString(date), salts.date_exact)),
          Stmt(TRUE, "date_day", poseidonCommitment(toLocaleDateString(date), salts.date_day)),
          Stmt(TRUE, "date_month", poseidonCommitment(toLocaleMonthYear(date), salts.date_month)),
          Stmt(TRUE, "date_year", poseidonCommitment(NatToString(getFullYear(date)), salts.date_year)),
          Stmt(locOn, "location_exact",
               poseidonCommitment(NumberToString(loc.latitude) \o ", " \o NumberToString(loc.longitude),
                                  salts.location_exact)),
          Stmt(locOn /\ Truthy(loc.city), "location_city",
               poseidonCommitment(loc.city, salts.location_city)),
          Stmt(locOn /\ Truthy(loc.country), "location_country",
               poseidonCommitment(loc.country, salts.location_country)),
          Stmt(locOn /\ Truthy(loc.continent), "location_continent",
               poseidonCommitment(loc.continent, salts.location_continent)),
          Stmt(TRUE, "device_info", poseidonCommitment(md.deviceInfo, salts.device_info)),
          Stmt(TRUE, "device_platform", poseidonCommitment(os, salts.device_platform)),
          Stmt(TRUE, "device_type", poseidonCommitment("Phone", salts.device_type)),
          Stmt(TRUE, "image_hash", poseidonCommitment(md.photoHash, salts.image_hash)),
          Stmt(Truthy(md.ipfsCid), "image_cid", poseidonCommitment(md.ipfsCid, salts.image_cid)) >>)

generatePublicClaims(md, ps, os) ==
    LET date   == md.timestamp
        loc    == md.location[1]
        timeOn == ps.timeProof.enabled
        tl     == ps.timeProof.level
        locOn  == ps.locationProof.enabled /\ md.location # None
        ll     == ps.locationProof.level
        devOn  == ps.deviceProof.enabled
        dl     == ps.deviceProof.level
        imgOn  == ps.imageReveal.enabled
        il     == ps.imageReveal.level
        lockOn == ps.timeLock.enabled /\ ps.timeLock.unlockTime # None
    IN  Assign(EmptyMap, <<
          Stmt(timeOn /\ tl = "exact", "date_exact", toISOString(date)),
          Stmt(timeOn /\ tl = "day", "date_day", toLocaleDateString(date)),
          Stmt(timeOn /\ tl = "month", "date_month", toLocaleMonthYear(date)),
          Stmt(timeOn /\ tl = "year", "date_year", NatToString(getFullYear(date))),
          Stmt(locOn /\ ll = "exact", "location_exact",
               NumberToString(loc.latitude) \o ", " \o NumberToString(loc.longitude)),
          Stmt(locOn /\ ll = "city" /\ Truthy(loc.city), "location_city", loc.city),
          Stmt(locOn /\ ll = "country" /\ Truthy(loc.country), "location_country", loc.country),
          Stmt(locOn /\ ll = "continent" /\ Truthy(loc.continent), "location_continent",
               loc.continent),
          Stmt(devOn /\ dl = "devicetype", "device_type", "Phone"),
          Stmt(devOn /\ dl = "platform", "device_platform", os),
          Stmt(devOn /\ dl = "imei", "device_info", md.deviceInfo),
          Stmt(ps.identityProof.enabled, "identity_verified", "true"),
          Stmt(imgOn /\ il = "description", "image_description", "Image description available"),
          Stmt(imgOn /\ il = "image" /\ Truthy(md.ipfsCid), "image_cid", md.ipfsCid),
          Stmt(lockOn, "time_lock_until", toISOString(ps.timeLock.unlockTime[1])),
          Stmt(lockOn, "time_lock_type", ps.timeLock.lockType),
          Stmt(ps.receiverLock.enabled /\ Truthy(ps.receiverLock.walletAddress),
               "allowed_address", ps.receiverLock.walletAddress) >>)

generateOriginalValues(md, ps, os) ==
    LET date  == md.timestamp
        loc   == md.location[1]
        locOn == md.location # None
    IN  Assign(EmptyMap, <<
          Stmt(TRUE, "date_exact", toISOString(date)),
          Stmt(TRUE, "date_day", toLocaleDateString(date)),
          Stmt(TRUE, "date_month", toLocaleMonthYear(date)),
          Stmt(TRUE, "date_year", NatToString(getFullYear(date))),
          Stmt(locOn, "location_exact",
               NumberToString(loc.latitude) \o ", " \o NumberToString(loc.longitude)),
          Stmt(locOn /\ Truthy(loc.city), "location_city", loc.city),
          Stmt(locOn /\ Truthy(loc.country), "location_country", loc.country),
          Stmt(locOn /\ Truthy(loc.continent), "location_continent", loc.continent),
          Stmt(TRUE, "device_info", md.deviceInfo),
          Stmt(TRUE, "device_platform", os),
          Stmt(TRUE, "device_type", "Phone"),
          Stmt(TRUE, "image_hash", md.photoHash),
          Stmt(Truthy(md.ipfsCid), "image_cid", md.ipfsCid),
          Stmt(ps.timeLock.enabled /\ Truthy(ps.timeLock.lockedData), "time_lock_data",
               ps.timeLock.lockedData),
          Stmt(ps.receiverLock.enabled /\ Truthy(ps.receiverLock.encryptedContent),
               "receiver_lock_data", ps.receiverLock.encryptedContent) >>)

(***************************************************************************)
(* Bounds and inputs                                                       *)
(***************************************************************************)
MaxGenerations == 2
MaxFailures == 1

\* the values Date.now() takes, in order
ClockTimes == << <<1700000343, 484>>, <<1700000348, 881>>,
                 <<1700001120, 55>>, <<1700001124, 761>> >>
DateNow == ClockTimes[clock]

\* the file the camera writes for the n-th capture
CameraFile(n) == "file:///cache/ImagePicker/photo" \o NatToString(n) \o ".jpg"

Paris == [latitude |-> 48856600, longitude |-> 2352200, city |-> "Paris",
          country |-> "France", continent |-> "Europe"]
\* reverse geocoding failed and the fallback found no country
Offshore == [latitude |-> 36500000, longitude |-> -4000000, city |-> "Unknown City",
             country |-> "", continent |-> "Europe"]
LocationSet == {Some(Paris)}
LocationWide == {None, Some(Paris), Some(Offshore)}

PlatformSet == {"ios", "web"}

\* the three structural components of a CircomProof are opaque
ProofSet == {[a |-> "a1", b |-> "b1", c |-> "c1", protocol |-> "groth16", curve |-> "bn128"]}

\* the mock content identifier uploadToIPFS returns
CidSet == {"Qmk3v9x1c7b2n"}

UnlockTime == <<1893456000, 0>>

DefaultPrivacySettings ==
    [timeProof     |-> [enabled |-> FALSE, level |-> "month"],
     locationProof |-> [enabled |-> FALSE, level |-> "country"],
     deviceProof   |-> [enabled |-> FALSE, level |-> "devicetype"],
     identityProof |-> [enabled |-> FALSE],
     imageReveal   |-> [enabled |-> FALSE, level |-> "none"],
     timeLock      |-> [enabled |-> FALSE, unlockTime |-> None, lockedData |-> "",
                        lockType |-> "date"],
     receiverLock  |-> [enabled |-> FALSE, walletAddress |-> "", encryptedContent |-> ""],
     saveForFuture |-> [enabled |-> FALSE],
     storageOptions |-> [type |-> "walrus", walrusBlobId |-> ""]]

AllOnPrivacySettings ==
    [timeProof     |-> [enabled |-> TRUE, level |-> "month"],
     locationProof |-> [enabled |-> TRUE, level |-> "country"],
     deviceProof   |-> [enabled |-> TRUE, level |-> "devicetype"],
     identityProof |-> [enabled |-> TRUE],
     imageReveal   |-> [enabled |-> TRUE, level |-> "image"],
     timeLock      |-> [enabled |-> TRUE, unlockTime |-> Some(UnlockTime),
                        lockedData |-> "secret-X", lockType |-> "content"],
     receiverLock  |-> [enabled |-> TRUE, walletAddress |-> "0xABC",
                        encryptedContent |-> "for-0xABC"],
     saveForFuture |-> [enabled |-> FALSE],
     storageOptions |-> [type |-> "ipfs", walrusBlobId |-> ""]]

SettingsSet == {DefaultPrivacySettings, AllOnPrivacySettings}

(***************************************************************************)
(* Make screen: capture and settings                                       *)
(***************************************************************************)
IPFS_GATEWAY == "https://gateway.pinata.cloud/ipfs/"
getIPFSUrl(cid) == IF cid = "" THEN "" ELSE IPFS_GATEWAY \o cid

\* the PhotoMetadata processPhoto builds for the captured asset
PhotoMetadata(uri, currentTime, locationData, os) ==
    [timestamp  |-> currentTime,
     location   |-> locationData,
     deviceInfo |-> IF os = "ios" THEN "iOS Camera" ELSE "Android Camera",
     photoHash  |-> generateSimpleHash(uri \o TimeToString(currentTime)),
     photoUri   |-> uri,
     ipfsCid    |-> "",
     isVideo    |-> FALSE,
     duration   |-> 0]

\* the local variables of generateZKProof and of the functions it awaits
GenIdle ==
    [md |-> None, ps |-> None, ipfsCid |-> "", ipfsUrl |-> "", currentTime |-> None,
     claims |-> EmptyMap, flags |-> EmptyMap, proof |-> None, verificationKey |-> "",
     capsuleId |-> "", salts |-> EmptyMap, originalValues |-> EmptyMap,
     commitments |-> EmptyMap, photoData |-> None, updatedPhotos |-> <<>>]

NoHistory ==
    [photosAtStart |-> None, vaultsAtStart |-> EmptyMap, capsuleIds |-> <<>>,
     failedAt |-> "", edits |-> 0, saves |-> 0]

\* GalleryScreen as constructed: useState([]), useState(null), useState(false),
\* useState(true)
GalleryInit ==
    [photos |-> <<>>, selectedPhoto |-> None, modalVisible |-> FALSE, loading |-> TRUE]

\* PhotoDetailsModal as constructed
ModalInit ==
    [editMode       |-> FALSE,
     revealedClaims |-> [time |-> FALSE, location |-> FALSE, device |-> FALSE,
                         authentic |-> FALSE, image |-> FALSE],
     updatedPhoto   |-> None,
     isSaving       |-> FALSE,
     selectedLevels |-> [time |-> "month", location |-> "country"]]

\* no saveChanges is running (detached: the modal that runs it has unmounted)
SaveIdle ==
    [pc |-> "idle", newCapsule |-> None, updatedPhotoWithCapsule |-> None,
     allPhotos |-> <<>>, handlerPhotos |-> <<>>, detached |-> FALSE]

\* VerifyScreen as constructed: the useState initial values
TimeLockInit ==
    [isLocked |-> FALSE, unlockTime |-> None, lockedData |-> None,
     currentTime |-> None, timeRemaining |-> 0]

WalletLockInit ==
    [isLocked |-> FALSE, allowedAddress |-> None, connectedWallet |-> None,
     encryptedContent |-> None, decryptedContent |-> None, isConnecting |-> FALSE]

VerifyInit ==
    [proofData          |-> "",
     verificationResult |-> None,
     isVerifying        |-> FALSE,
     parsedCapsule      |-> None,
     showResultsModal   |-> FALSE,
     showFallingPhrases |-> TRUE,
     timeLockState      |-> TimeLockInit,
     walletLockState    |-> WalletLockInit,
     isLoadingTime      |-> FALSE]

\* no checkTimeLockStatus is running
CheckIdle == [pc |-> "idle", capsule |-> None, unlockTime |-> None, currentTime |-> None]

\* no verifyProof is running
VerifyProofIdle ==
    [pc |-> "idle", capsuleData |-> "", fetched |-> FALSE, parsed |-> None,
     check |-> CheckIdle, escaped |-> FALSE]

\* the verify tab is mounted and untouched
\* no connectWallet is running (the two fields are those of the
\* walletLockState of the render connectWallet was called in)
ConnectIdle == [pc |-> "idle", allowedAddress |-> None, encryptedContent |-> None]

\* no createOffer is running
CreateIdle == [pc |-> "idle", capsuleId |-> "", updatedOffers |-> <<>>, label |-> ""]

\* the offers state as constructed, no '@offers_<id>' key stored; effectFor
\* is the parsedCapsule the offers effect last ran for
MarketInit ==
    [offers |-> <<>>, showOfferModal |-> FALSE, selectedDataType |-> "",
     offerAmount |-> "", offerCurrency |-> "USDT", isSubmittingOffer |-> FALSE,
     stored |-> << >>, effectFor |-> None, created |-> 0, create |-> CreateIdle]

\* no fetchGlobalTime is running
TimeSyncIdle == [pc |-> "idle", api |-> 0, contacted |-> <<>>, result |-> None]

\* the make screen as mounted and focused: the mount effect has called
\* checkPermissionsAndProceed and the focus effect has set its timer; both
\* closures see metadata = null.  No camera is open.
CaptureInit ==
    [calls |-> {[from |-> "mount", metadata |-> FALSE],
                [from |-> "focus", metadata |-> FALSE]},
     open |-> 0, focused |-> TRUE]

SessionInit ==
    /\ wallet = ConnectIdle
    /\ market = MarketInit
    /\ timeSync = TimeSyncIdle
    /\ capture = CaptureInit

VerifyMounted ==
    /\ verify = VerifyInit
    /\ vproof = VerifyProofIdle
    /\ refresh = CheckIdle
    /\ globalClock = 1
    /\ SessionInit

Init ==
    /\ clock = 1
    /\ metadata = None
    /\ privacySettings = DefaultPrivacySettings
    /\ pc = "idle"
    /\ gen = GenIdle
    /\ isGeneratingProof = FALSE
    /\ generatedCapsule = None
    /\ alerts = {}
    /\ vaults = EmptyMap
    /\ photos = None
    /\ generations = 0
    /\ faults = 0
    /\ history = NoHistory
    /\ platformOS \in PlatformSet
    /\ currentStep = "loading"
    /\ probe = None
    /\ gallery = GalleryInit
    /\ modal = ModalInit
    /\ save = SaveIdle
    /\ VerifyMounted

\* the device clock advances
Tick ==
    /\ clock < Len(ClockTimes)
    /\ clock' = clock + 1
    /\ UNCHANGED <<metadata, privacySettings, pc, gen, isGeneratingProof,
                   generatedCapsule, alerts, vaults, photos, generations, faults,
                   history, platformOS, verifyVars, currentStep, probe, gallery, modal, save>>

\* takePicture -> processPhoto: the camera returned an asset and the location
\* lookup ended with locationData
processPhoto(locationData, maxGenerations) ==
    /\ currentStep = "loading"
    /\ metadata = None
    /\ generations < maxGenerations
    /\ metadata' = Some(PhotoMetadata(CameraFile(generations + 1), DateNow,
                                      locationData, platformOS))
    /\ generations' = generations + 1
    /\ currentStep' = "settings"
    /\ UNCHANGED <<clock, privacySettings, pc, gen, isGeneratingProof,
                   generatedCapsule, alerts, vaults, photos, faults, history,
                   platformOS, verifyVars, probe, gallery, modal, save>>

\* the settings screen: the user leaves the switches in state ps
setPrivacySettings(ps) ==
    /\ currentStep = "settings"
    /\ privacySettings # ps
    /\ privacySettings' = ps
    /\ UNCHANGED <<clock, metadata, pc, gen, isGeneratingProof, generatedCapsule,
                   alerts, vaults, photos, generations, faults, history,
                   platformOS, verifyVars, currentStep, probe, gallery, modal, save>>

(***************************************************************************)
(* ZKGen: generateZKProof, one action per stretch between two awaits       *)
(***************************************************************************)
BoolToString(b) == IF b THEN "true" ELSE "false"

\* currentTime - 30 days
OneMonthBefore(t) == <<t[1] - 30 * 24 * 60 * 60, t[2]>>

\* generateZKProof from 'Prepare circuit inputs' to the call of the proof library
PrepareCircuit(g, currentTime) ==
    LET md == g.md[1]
        ps == g.ps[1]
    IN [g EXCEPT
        !.currentTime = Some(currentTime),
        !.claims =
           [time_claim |-> IF ps.timeProof.enabled
                            THEN generateTimeClaim(md.timestamp, ps.timeProof.level)
                            ELSE "Time not verified",
            location_claim |-> IF ps.locationProof.enabled /\ md.location # None
                            THEN generateLocationClaim(md.location, ps.locationProof.level)
                            ELSE "Location not verified",
            device_claim |-> IF ps.deviceProof.enabled
                            THEN generateDeviceClaim(md.deviceInfo, ps.deviceProof.level)
                            ELSE "Device not verified",
            authenticity_claim |-> IF ps.identityProof.enabled
                            THEN "Identity verified" ELSE "Identity not verified",
            image_content_claim |-> IF ps.imageReveal.enabled
                            THEN generateImageContentClaim(ps.imageReveal.level, g.ipfsCid)
                            ELSE "Image content private"],
        !.flags =
           [timeWithinMonth |-> ps.timeProof.enabled
                                /\ TimeLess(OneMonthBefore(currentTime), md.timestamp),
            locationInRegion |-> ps.locationProof.enabled /\ md.location # None,
            deviceTrusted |-> ps.deviceProof.enabled,
            photoAuthentic |-> ps.identityProof.enabled,
            imageContentRevealed |-> ps.imageReveal.enabled /\ ps.imageReveal.level # "none"]]

\* on the web the library is called at once, on a phone the proving key is
\* looked up (and downloaded) first
ProofEntry == IF platformOS = "web" THEN "prove" ELSE "key"

\* the catch block without its finally: the spinner is never cleared
CatchWithoutFinally(at) ==
    /\ alerts' = alerts \cup {"Error"}
    /\ UNCHANGED isGeneratingProof
    /\ pc' = "failed"
    /\ history' = [history EXCEPT !.failedAt = at]

\* catch (error) { Alert.alert('Error', ...) } finally { setIsGeneratingProof(false) }
Catch(at) ==
    /\ alerts' = alerts \cup {"Error"}
    /\ isGeneratingProof' = FALSE
    /\ pc' = "failed"
    /\ history' = [history EXCEPT !.failedAt = at]

\* ZKGen mounts (the make screen's generateZKProof set the step to 'proof') and
\* its effect runs generateZKProof up to the first await
StartGeneration ==
    /\ currentStep = "settings"
    /\ metadata # None
    /\ pc \in {"idle", "done", "failed"}
    /\ currentStep' = "proof"
    /\ isGeneratingProof' = TRUE
    /\ generatedCapsule' = None
    /\ alerts' = {}
    /\ history' = [history EXCEPT !.photosAtStart = photos, !.vaultsAtStart = vaults,
                                  !.failedAt = ""]
    /\ LET g == [GenIdle EXCEPT !.md = metadata, !.ps = Some(privacySettings)]
       IN  IF Truthy(metadata[1].photoUri)
           THEN gen' = g /\ pc' = "upload"
           ELSE gen' = PrepareCircuit(g, DateNow) /\ pc' = ProofEntry
    /\ UNCHANGED <<clock, metadata, privacySettings, vaults, photos, generations,
                   faults, platformOS, verifyVars, probe, gallery, modal, save>>

\* uploadToIPFS resolved with the mock content identifier
UploadSucceeds(cid) ==
    /\ pc = "upload"
    /\ LET md == [gen.md[1] EXCEPT !.ipfsCid = cid]
           g  == [gen EXCEPT !.ipfsCid = cid, !.ipfsUrl = getIPFSUrl(cid), !.md = Some(md)]
       IN  /\ gen' = PrepareCircuit(g, DateNow)
           \* metadata.ipfsCid = ipfsCid writes to the object the make screen holds
           /\ metadata' = IF metadata = None THEN None ELSE Some(md)
    /\ pc' = ProofEntry
    /\ UNCHANGED <<clock, privacySettings, isGeneratingProof, generatedCapsule, alerts,
                   vaults, photos, generations, faults, history, platformOS, verifyVars,
                   currentStep, probe, gallery, modal, save>>

\* uploadToIPFS rejected (the file is gone): a warning, and the flow goes on
UploadFails(maxFailures) ==
    /\ pc = "upload"
    /\ faults < maxFailures
    /\ faults' = faults + 1
    /\ alerts' = alerts \cup {"IPFS Upload Warning"}
    /\ gen' = PrepareCircuit(gen, DateNow)
    /\ pc' = ProofEntry
    /\ UNCHANGED <<clock, metadata, privacySettings, isGeneratingProof, generatedCapsule,
                   vaults, photos, generations, history, platformOS, verifyVars, currentStep, probe, gallery, modal, save>>

\* FileSystem.getInfoAsync (and, for a missing key, downloadAsync and moveAsync)
KeyReady ==
    /\ pc = "key"
    /\ pc' = "prove"
    /\ UNCHANGED <<clock, metadata, privacySettings, gen, isGeneratingProof,
                   generatedCapsule, alerts, vaults, photos, generations, faults,
                   history, platformOS, verifyVars, currentStep, probe, gallery, modal, save>>

\* the proving key cannot be obtained: 'Failed to download the file' or a rejection
KeyFails(maxFailures) ==
    /\ pc = "key"
    /\ faults < maxFailures
    /\ faults' = faults + 1
    /\ Catch("key")
    /\ UNCHANGED <<clock, metadata, privacySettings, gen, generatedCapsule, vaults,
                   photos, generations, platformOS, verifyVars, currentStep, probe, gallery, modal, save>>

\* generateCircomProof / generateCircomProofWeb rejected
ProofFails(maxFailures) ==
    /\ pc = "prove"
    /\ faults < maxFailures
    /\ faults' = faults + 1
    /\ Catch("proof")
    /\ UNCHANGED <<clock, metadata, privacySettings, gen, generatedCapsule, vaults,
                   photos, generations, platformOS, verifyVars, currentStep, probe, gallery, modal, save>>

\* generateZKCapsule: generateCommitments and the two lock commitments
CapsuleCommitments(md, ps, salts, os) ==
    Assign(generateCommitments(md, salts, os), <<
      Stmt(ps.timeLock.enabled /\ Truthy(ps.timeLock.lockedData), "time_lock_data",
           poseidonCommitment(ps.timeLock.lockedData, salts.time_lock)),
      Stmt(ps.receiverLock.enabled /\ Truthy(ps.receiverLock.encryptedContent),
           "receiver_lock_data",
           poseidonCommitment(ps.receiverLock.encryptedContent, salts.receiver_lock)) >>)

\* generateZKCapsule: generatePublicClaims, the circuit results and the
\* human-readable claims
CapsulePublicClaims(md, ps, os, flags, claims) ==
    Assign(generatePublicClaims(md, ps, os), <<
      Stmt(TRUE, "time_within_month", BoolToString(flags.timeWithinMonth)),
      Stmt(TRUE, "location_in_region", BoolToString(flags.locationInRegion)),
      Stmt(TRUE, "device_trusted", BoolToString(flags.deviceTrusted)),
      Stmt(TRUE, "photo_authentic", BoolToString(flags.photoAuthentic)),
      Stmt(TRUE, "image_content_revealed", BoolToString(flags.imageContentRevealed)),
      Stmt(Truthy(claims.time_claim), "time_claim", claims.time_claim),
      Stmt(Truthy(claims.location_claim), "location_claim", claims.location_claim),
      Stmt(Truthy(claims.device_claim), "device_claim", claims.device_claim),
      Stmt(Truthy(claims.authenticity_claim), "authenticity_claim", claims.authenticity_claim),
      Stmt(Truthy(claims.image_content_claim), "image_content_claim",
           claims.image_content_claim) >>)

ZKCapsule(g, os) ==
    LET md == g.md[1]
        ps == g.ps[1]
    IN [capsule_id    |-> g.capsuleId,
        public_claims |-> CapsulePublicClaims(md, ps, os, g.flags, g.claims),
        proof         |-> g.proof[1],
        metadata      |-> [proof_scheme     |-> "circom 2",
                           circuit_version  |-> "multiplier2_v1",
                           image_hash       |-> md.photoHash,
                           verification_key |-> g.verificationKey,
                           ipfsCid          |-> g.ipfsCid,
                           ipfsUrl          |-> g.ipfsUrl,
                           walrusBlobId     |-> ps.storageOptions.walrusBlobId,
                           storageType      |-> ps.storageOptions.type,
                           created_at       |-> g.currentTime[1]]]

PrivateVault(g) ==
    [capsule_id      |-> g.capsuleId,
     commitments     |-> g.commitments,
     salts           |-> g.salts,
     original_values |-> g.originalValues]

\* savePhotoToGallery: the entry built before the collection is read
PhotoData(capsule, md, now) ==
    [id        |-> TimeToString(now),
     timestamp |-> md.timestamp,
     photoUri  |-> md.photoUri,
     metadata  |-> [location |-> md.location, deviceInfo |-> md.deviceInfo,
                    photoHash |-> md.photoHash, ipfsCid |-> md.ipfsCid,
                    isVideo |-> md.isVideo, duration |-> md.duration],
     zkCapsule |-> capsule]

\* storePrivateVault called without await: the capsule is returned and
\* displayed while AsyncStorage.setItem is still in flight
ExposeBeforeVaultWrite(g) ==
    /\ gen' = g
    /\ pc' = "vaultWrite"
    /\ generatedCapsule' = Some(ZKCapsule(g, platformOS))

\* await storePrivateVault(capsuleId, privateVault): generateZKCapsule is
\* suspended with locals g while AsyncStorage.setItem is in flight; it has not
\* returned, so nothing is displayed yet
AwaitVaultWrite(g) ==
    /\ gen' = g
    /\ pc' = "vaultWrite"
    /\ UNCHANGED generatedCapsule

\* the verification key, then generateZKCapsule down to the private vault:
\* the locals g after them, the proof library having returned proof at time now
AssembleVault(g, proof, seed, now, os) ==
    LET md == g.md[1]
        ps == g.ps[1]
        salts == generateAllSalts(seed)
    IN  [g EXCEPT
           !.proof = Some(proof),
           !.verificationKey = generateSimpleHash("verification_key_" \o TimeToString(now)),
           !.capsuleId = generateSimpleHash(md.photoHash \o TimeToString(now)),
           !.salts = salts,
           !.originalValues = generateOriginalValues(md, ps, os),
           !.commitments = CapsuleCommitments(md, ps, salts, os)]

\* the proof library resolved: the verification key, then generateZKCapsule up
\* to the await of storePrivateVault
ProofSucceeds(proof, seed) ==
    /\ pc = "prove"
    /\ LET g == AssembleVault(gen, proof, seed, DateNow, platformOS)
       IN  /\ AwaitVaultWrite(g)
           /\ history' = [history EXCEPT !.capsuleIds = Append(@, g.capsuleId)]
    /\ UNCHANGED <<clock, metadata, privacySettings, isGeneratingProof,
                   alerts, vaults, photos, generations, faults, platformOS, verifyVars,
                   currentStep, probe, gallery, modal, save>>

\* generateZKCapsule after storePrivateVault returned, setGeneratedCapsule, and
\* savePhotoToGallery up to the await of AsyncStorage.getItem
AfterVault ==
    LET capsule == ZKCapsule(gen, platformOS)
    IN  /\ generatedCapsule' = Some(capsule)
        /\ UNCHANGED history
        /\ IF Truthy(gen.md[1].photoUri)
           THEN /\ gen' = [gen EXCEPT !.photoData = Some(PhotoData(capsule, gen.md[1], DateNow))]
                /\ pc' = "galleryRead"
                /\ UNCHANGED isGeneratingProof
           ELSE /\ gen' = gen
                /\ pc' = "done"
                /\ isGeneratingProof' = FALSE

\* storePrivateVault: AsyncStorage.setItem resolved
VaultWriteSucceeds ==
    /\ pc = "vaultWrite"
    /\ vaults' = Put(vaults, gen.capsuleId, PrivateVault(gen))
    /\ AfterVault
    /\ UNCHANGED <<clock, metadata, privacySettings, alerts, photos, generations,
                   faults, platformOS, verifyVars, currentStep, probe, gallery, modal, save>>

\* storePrivateVault: AsyncStorage.setItem rejected; the catch logs the error
VaultWriteFails(maxFailures) ==
    /\ pc = "vaultWrite"
    /\ faults < maxFailures
    /\ faults' = faults + 1
    /\ AfterVault
    /\ UNCHANGED <<clock, metadata, privacySettings, alerts, vaults, photos,
                   generations, platformOS, verifyVars, currentStep, probe, gallery, modal, save>>

\* savePhotoToGallery: getItem resolved; setItem of the new list is in flight
GalleryReadSucceeds ==
    /\ pc = "galleryRead"
    /\ gen' = [gen EXCEPT !.updatedPhotos =
                   <<gen.photoData[1]>> \o (IF photos = None THEN <<>> ELSE photos[1])]
    /\ pc' = "galleryWrite"
    /\ UNCHANGED <<clock, metadata, privacySettings, isGeneratingProof, generatedCapsule,
                   alerts, vaults, photos, generations, faults, history, platformOS, verifyVars,
                   currentStep, probe, gallery, modal, save>>

\* savePhotoToGallery: getItem or setItem rejected; the catch logs the error
GalleryFails(maxFailures) ==
    /\ pc \in {"galleryRead", "galleryWrite"}
    /\ faults < maxFailures
    /\ faults' = faults + 1
    /\ pc' = "done"
    /\ isGeneratingProof' = FALSE
    /\ UNCHANGED <<clock, metadata, privacySettings, gen, generatedCapsule, alerts,
                   vaults, photos, generations, history, platformOS, verifyVars, currentStep, probe, gallery, modal, save>>

\* savePhotoToGallery: setItem resolved
GalleryWriteSucceeds ==
    /\ pc = "galleryWrite"
    /\ photos' = Some(gen.updatedPhotos)
    /\ pc' = "done"
    /\ isGeneratingProof' = FALSE
    /\ UNCHANGED <<clock, metadata, privacySettings, gen, generatedCapsule, alerts,
                   vaults, generations, faults, history, platformOS, verifyVars, currentStep, probe, gallery, modal, save>>

\* ProofSuccessModal onReset: ZKGen.resetData and the make screen's resetData
resetData ==
    /\ currentStep = "proof"
    /\ generatedCapsule # None
    /\ generatedCapsule' = None
    /\ isGeneratingProof' = FALSE
    /\ metadata' = None
    /\ currentStep' = "loading"
    /\ privacySettings' = IF privacySettings.saveForFuture.enabled
                          THEN privacySettings ELSE DefaultPrivacySettings
    /\ UNCHANGED <<clock, pc, gen, alerts, vaults, photos, generations, faults,
                   history, platformOS, verifyVars, probe, gallery, modal, save>>

Generation(maxFailures) ==
    \/ StartGeneration
    \/ \E cid \in CidSet : UploadSucceeds(cid)
    \/ UploadFails(maxFailures)
    \/ KeyReady
    \/ KeyFails(maxFailures)
    \/ \E proof \in ProofSet, seed \in RandomSeeds : ProofSucceeds(proof, seed)
    \/ ProofFails(maxFailures)
    \/ VaultWriteSucceeds
    \/ VaultWriteFails(maxFailures)
    \/ GalleryReadSucceeds
    \/ GalleryFails(maxFailures)
    \/ GalleryWriteSucceeds

Next ==
    \/ Tick
    \/ \E locationData \in LocationSet : processPhoto(locationData, MaxGenerations)
    \/ \E ps \in SettingsSet : setPrivacySettings(ps)
    \/ Generation(MaxFailures)
    \/ resetData

Spec == Init /\ [][Next]_vars

(***************************************************************************)
(* Properties of the generation flow                                       *)
(***************************************************************************)
\* the keys of public_claims that belong to each disclosure category: the
\* field keys, the circuit result and the human-readable claim
CategoryKeys ==
    [time     |-> {"date_exact", "date_day", "date_month", "date_year",
                   "time_within_month", "time_claim"},
     location |-> {"location_exact", "location_city", "location_country",
                   "location_continent", "location_in_region", "location_claim"},
     device   |-> {"device_type", "device_platform", "device_info",
                   "device_trusted", "device_claim"},
     identity |-> {"identity_verified", "photo_authentic", "authenticity_claim"},
     image    |-> {"image_description", "image_cid", "image_content_revealed",
                   "image_content_claim"}]

CategoryEnabled(ps) ==
    [time     |-> ps.timeProof.enabled,
     location |-> ps.locationProof.enabled,
     device   |-> ps.deviceProof.enabled,
     identity |-> ps.identityProof.enabled,
     image    |-> ps.imageReveal.enabled]

\* the capsules stored in the gallery collection
GalleryCapsules ==
    IF photos = None THEN {} ELSE {photos[1][i].zkCapsule : i \in DOMAIN photos[1]}

\* C1: the capsule the assembler produced holds no public_claims key of a
\* disclosure category whose toggle was off when it was generated
C1_DisabledCategoryHasNoKey ==
    generatedCapsule # None =>
        \A cat \in DOMAIN CategoryKeys :
            ~CategoryEnabled(gen.ps[1])[cat] =>
                (DOMAIN generatedCapsule[1].public_claims) \cap CategoryKeys[cat] = {}

\* C2: a capsule that is displayed as generated or stored in the gallery has
\* a stored vault under its capsule_id
C2_VisibleCapsuleHasVault ==
    /\ generatedCapsule # None => Has(vaults, generatedCapsule[1].capsule_id)
    /\ \A capsule \in GalleryCapsules : Has(vaults, capsule.capsule_id)

\* C3: until the vault write of a run has completed (it has not been started,
\* or it is in flight), the run's capsule is not displayed and the run has
\* added nothing to the gallery
C3_VaultWriteSettlesBeforeExposure ==
    pc \in {"upload", "key", "prove", "vaultWrite"} =>
        /\ generatedCapsule = None
        /\ photos = history.photosAtStart

\* a second capture's vault write is in flight while the gallery holds the first
C3_Witness ==
    /\ pc = "vaultWrite"
    /\ gen.capsuleId # ""
    /\ photos # None

\* C4: when the proof library rejects or the proving key cannot be obtained,
\* the run ends with no vault written, no capsule displayed, the gallery as it
\* was, an error alert shown and isGeneratingProof false
C4_ProofFailureLeavesNothing ==
    (pc = "failed" /\ history.failedAt \in {"key", "proof"}) =>
        /\ vaults = history.vaultsAtStart
        /\ generatedCapsule = None
        /\ photos = history.photosAtStart
        /\ "Error" \in alerts
        /\ ~isGeneratingProof

\* the proof library rejected in a second run, with a vault and a photo stored
C4_Witness ==
    /\ pc = "failed"
    /\ history.failedAt = "proof"
    /\ photos # None
    /\ DOMAIN vaults # {}

\* C6: within a vault the salts of two different fields differ, and no salt of
\* one capsule's vault occurs in the vault of another capsule
C6_SaltsNeverReused ==
    /\ \A id \in DOMAIN vaults :
          \A k1, k2 \in DOMAIN vaults[id].salts :
              k1 # k2 => vaults[id].salts[k1] # vaults[id].salts[k2]
    /\ \A id1, id2 \in DOMAIN vaults :
          id1 # id2 =>
              \A k1 \in DOMAIN vaults[id1].salts, k2 \in DOMAIN vaults[id2].salts :
                  vaults[id1].salts[k1] # vaults[id2].salts[k2]

\* C8: two different generation events never draw the same capsule_id
C8_CapsuleIdsUnique ==
    \A i, j \in DOMAIN history.capsuleIds :
        i # j => history.capsuleIds[i] # history.capsuleIds[j]

(***************************************************************************)
(* The commitment function on its own: Init draws a value and two salts,   *)
(* Commit applies poseidonCommitment to both pairs.                        *)
(***************************************************************************)
\* field values the Commitment Builder commits to
ProbeValues == {"", "Phone", "France", "iOS Camera", "2023-11-14T22:19:03.484Z"}

\* salts generateSalt can return: digit strings of length 6 to 9
ProbeSalts == {"123456", "0777777", "71000710", "00721006", "000086419", "999999999"}

InitHash ==
    /\ clock = 1
    /\ metadata = None
    /\ privacySettings = DefaultPrivacySettings
    /\ pc = "idle"
    /\ gen = GenIdle
    /\ isGeneratingProof = FALSE
    /\ generatedCapsule = None
    /\ alerts = {}
    /\ vaults = EmptyMap
    /\ photos = None
    /\ generations = 0
    /\ faults = 0
    /\ history = NoHistory
    /\ platformOS = "ios"
    /\ currentStep = "loading"
    /\ probe \in {Some([op |-> "input", value |-> v, salt1 |-> s1, salt2 |-> s2,
                         commitment1 |-> "", commitment2 |-> ""]) :
                       v \in ProbeValues, s1 \in ProbeSalts, s2 \in ProbeSalts}
    /\ gallery = GalleryInit
    /\ modal = ModalInit
    /\ save = SaveIdle
    /\ VerifyMounted

Commit ==
    /\ probe # None
    /\ probe[1].op = "input"
    /\ probe' = Some([probe[1] EXCEPT
                        !.op = "commit",
                        !.commitment1 = poseidonCommitment(probe[1].value, probe[1].salt1),
                        !.commitment2 = poseidonCommitment(probe[1].value, probe[1].salt2)])
    /\ UNCHANGED <<clock, metadata, privacySettings, pc, gen, isGeneratingProof,
                   generatedCapsule, alerts, vaults, photos, generations, faults,
                   history, platformOS, verifyVars, currentStep, gallery, modal, save>>

NextHash == Commit

SpecHash == InitHash /\ [][NextHash]_vars

\* C7: the commitments of one value under two different salts differ
C7_DifferentSaltsDifferentCommitments ==
    (probe # None /\ probe[1].op = "commit" /\ probe[1].salt1 # probe[1].salt2) =>
        probe[1].commitment1 # probe[1].commitment2

(***************************************************************************)
(* The Capsule Assembler on its inputs: one capture, the switches in any   *)
(* state the settings screen can leave them in, up to the vault write.     *)
(***************************************************************************)
MaxAssemblies == 1

Categories == {"time", "location", "device", "identity", "image"}

\* the levels the four pickers are left at
LevelProfiles ==
    {[time |-> "exact", location |-> "exact",     device |-> "devicetype", image |-> "none"],
     [time |-> "hour",  location |-> "city",      device |-> "platform",   image |-> "description"],
     [time |-> "day",   location |-> "country",   device |-> "imei",       image |-> "image"],
     [time |-> "week",  location |-> "continent", device |-> "devicetype", image |-> "image"],
     [time |-> "month", location |-> "country",   device |-> "platform",   image |-> "none"],
     [time |-> "year",  location |-> "city",      device |-> "imei",       image |-> "description"]}

\* the time-lock card: off, switched on with no date picked, on with a date
TimeLockSet ==
    {[enabled |-> FALSE, unlockTime |-> None, lockedData |-> "", lockType |-> "date"],
     [enabled |-> TRUE, unlockTime |-> None, lockedData |-> "secret-X", lockType |-> "date"],
     [enabled |-> TRUE, unlockTime |-> Some(UnlockTime), lockedData |-> "secret-X",
      lockType |-> "content"],
     [enabled |-> TRUE, unlockTime |-> Some(UnlockTime), lockedData |-> "", lockType |-> "date"]}

ReceiverLockSet ==
    {[enabled |-> FALSE, walletAddress |-> "", encryptedContent |-> ""],
     [enabled |-> TRUE, walletAddress |-> "0xABC", encryptedContent |-> "for-0xABC"]}

SettingsWide ==
    {[timeProof      |-> [enabled |-> on["time"], level |-> lv.time],
      locationProof  |-> [enabled |-> on["location"], level |-> lv.location],
      deviceProof    |-> [enabled |-> on["device"], level |-> lv.device],
      identityProof  |-> [enabled |-> on["identity"]],
      imageReveal    |-> [enabled |-> on["image"], level |-> lv.image],
      timeLock       |-> tl,
      receiverLock   |-> rl,
      saveForFuture  |-> [enabled |-> FALSE],
      storageOptions |-> [type |-> "walrus", walrusBlobId |-> ""]] :
        on \in [Categories -> BOOLEAN], lv \in LevelProfiles,
        tl \in TimeLockSet, rl \in ReceiverLockSet}

InitAssemble ==
    /\ clock = 1
    /\ metadata = None
    /\ privacySettings \in SettingsWide
    /\ pc = "idle"
    /\ gen = GenIdle
    /\ isGeneratingProof = FALSE
    /\ generatedCapsule = None
    /\ alerts = {}
    /\ vaults = EmptyMap
    /\ photos = None
    /\ generations = 0
    /\ faults = 0
    /\ history = NoHistory
    /\ platformOS \in PlatformSet
    /\ currentStep = "loading"
    /\ probe = None
    /\ gallery = GalleryInit
    /\ modal = ModalInit
    /\ save = SaveIdle
    /\ VerifyMounted

NextAssemble ==
    \/ \E locationData \in LocationWide : processPhoto(locationData, MaxAssemblies)
    \/ StartGeneration
    \/ \E cid \in CidSet : UploadSucceeds(cid)
    \/ UploadFails(MaxFailures)
    \/ KeyReady
    \/ \E proof \in ProofSet : ProofSucceeds(proof, 1)
    \/ VaultWriteSucceeds

SpecAssemble == InitAssemble /\ [][NextAssemble]_vars

\* C5: in every vault written, each key of original_values has a commitment
\* and a salt under the same key, the commitment is that of the value under
\* that salt, and commitments has no key original_values lacks
C5_VaultMapsBoundByKey ==
    \A id \in DOMAIN vaults :
        LET vault == vaults[id]
        IN  /\ \A k \in DOMAIN vault.original_values :
                  /\ Has(vault.commitments, k)
                  /\ Has(vault.salts, k)
                  /\ vault.commitments[k] =
                         poseidonCommitment(vault.original_values[k], vault.salts[k])
            /\ DOMAIN vault.commitments \subseteq DOMAIN vault.original_values

\* C9: a capsule generated with the time-lock switched on publishes
\* time_lock_until and time_lock_type, and no public claim has the locked
\* payload as its value
C9_TimeLockClaimsPublished ==
    (generatedCapsule # None /\ gen.ps[1].timeLock.enabled) =>
        LET claims == generatedCapsule[1].public_claims
        IN  /\ Has(claims, "time_lock_until")
            /\ Has(claims, "time_lock_type")
            /\ Truthy(gen.ps[1].timeLock.lockedData) =>
                   \A k \in DOMAIN claims : claims[k] # gen.ps[1].timeLock.lockedData

(***************************************************************************)
(* Gallery screen and PhotoDetailsModal: claim revision                    *)
(***************************************************************************)
MaxEdits == 2
MaxSaves == 2

ClaimTypes == {"time", "location", "device", "authentic", "image"}
\* the level bubbles the modal renders
TimeLevels == {"year", "month", "week", "day", "exact"}
LocationLevels == {"continent", "country", "city", "exact"}

\* the circuit result of public_claims each switch stands for
FlagKey(claimType) ==
    CASE claimType = "time"      -> "time_within_month"
      [] claimType = "location"  -> "location_in_region"
      [] claimType = "device"    -> "device_trusted"
      [] claimType = "authentic" -> "photo_authentic"
      [] claimType = "image"     -> "image_content_revealed"

\* a || b on strings
OrElse(a, b) == IF Truthy(a) THEN a ELSE b

\* public_claims.<flag> === "true" || false, for the five switches
RevealedFrom(photo) ==
    [claimType \in ClaimTypes |->
        Get(photo.zkCapsule.public_claims, FlagKey(claimType)) = "true"]

\* {...photo, zkCapsule: {...photo.zkCapsule, public_claims: claims}}
WithPublicClaims(photo, claims) ==
    [photo EXCEPT !.zkCapsule = [@ EXCEPT !.public_claims = claims]]

\* the effect on [photo]: the switches, the working copy and the levels
ModalEffect(m, photo) ==
    [m EXCEPT
       !.revealedClaims = RevealedFrom(photo),
       !.updatedPhoto   = Some(photo),
       !.selectedLevels =
           [time     |-> OrElse(Get(photo.zkCapsule.public_claims, "time_level"), "month"),
            location |-> OrElse(Get(photo.zkCapsule.public_claims, "location_level"),
                                "country")]]

\* updateClaimLevel writing the location claim the way the default branch of
\* generateLocationClaim does ("In <country>")
LevelClaimsInRegion(photo, claims, claimType, level) ==
    Assign(claims, <<
      Stmt(claimType = "time", "time_claim", "In " \o toLocaleMonthYear(photo.timestamp)),
      Stmt(claimType = "location" /\ photo.metadata.location # None, "location_claim",
           "In " \o OrElse(photo.metadata.location[1].country, "authorized region")) >>)

\* updateClaimLevel: the claims after the switch on claimType and level
LevelClaims(photo, claims, claimType, level) ==
    LET t   == photo.timestamp
        loc == photo.metadata.location[1]
    IN  Assign(claims, <<
          Stmt(claimType = "time" /\ level = "exact", "time_claim",
               "At " \o toLocaleString(t)),
          Stmt(claimType = "time" /\ level = "day", "time_claim",
               "On " \o toLocaleDateString(t)),
          Stmt(claimType = "time" /\ level = "week", "time_claim",
               "Week of " \o toLocaleDateString(WeekStart(t))),
          Stmt(claimType = "time" /\ level = "month", "time_claim",
               "In " \o toLocaleMonthYear(t)),
          Stmt(claimType = "time" /\ level = "year", "time_claim",
               "In " \o NatToString(getFullYear(t))),
          Stmt(claimType = "location" /\ photo.metadata.location # None /\ level = "exact",
               "location_claim",
               "At " \o toFixed6(loc.latitude) \o ", " \o toFixed6(loc.longitude)),
          Stmt(claimType = "location" /\ photo.metadata.location # None /\ level = "city",
               "location_claim", OrElse(loc.city, "In local city")),
          Stmt(claimType = "location" /\ photo.metadata.location # None /\ level = "country",
               "location_claim", OrElse(loc.country, "In authorized country")),
          Stmt(claimType = "location" /\ photo.metadata.location # None
                   /\ level = "continent",
               "location_claim", OrElse(loc.continent, "In authorized continent")) >>)

\* the five circuit results written from the switches
RevealedFlags(claims, revealedClaims) ==
    Assign(claims, <<
      Stmt(TRUE, "time_within_month", BoolToString(revealedClaims.time)),
      Stmt(TRUE, "location_in_region", BoolToString(revealedClaims.location)),
      Stmt(TRUE, "device_trusted", BoolToString(revealedClaims.device)),
      Stmt(TRUE, "photo_authentic", BoolToString(revealedClaims.authentic)),
      Stmt(TRUE, "image_content_revealed", BoolToString(revealedClaims.image)) >>)

generateUpdatedCapsule(photo, revealedClaims, selectedLevels, now) ==
    LET existingCapsule == photo.zkCapsule
    IN  [capsule_id    |-> existingCapsule.capsule_id,
         public_claims |->
             Assign(RevealedFlags(existingCapsule.public_claims, revealedClaims), <<
               Stmt(TRUE, "time_level", selectedLevels.time),
               Stmt(TRUE, "location_level", selectedLevels.location) >>),
         proof         |-> photo.zkCapsule.proof,
         metadata      |-> [proof_scheme     |-> existingCapsule.metadata.proof_scheme,
                            circuit_version  |-> existingCapsule.metadata.circuit_version,
                            image_hash       |-> existingCapsule.metadata.image_hash,
                            verification_key |-> existingCapsule.metadata.verification_key,
                            ipfsCid          |-> existingCapsule.metadata.ipfsCid,
                            ipfsUrl          |-> existingCapsule.metadata.ipfsUrl,
                            \* created_at || Date.now()
                            created_at       |->
                                IF existingCapsule.metadata.created_at = <<0, 0>>
                                THEN now ELSE existingCapsule.metadata.created_at]]

\* loadPhotos, run by the mount effect: getItem resolved
loadPhotos ==
    /\ gallery.loading
    /\ gallery' = [gallery EXCEPT
                     !.photos = IF photos # None THEN photos[1] ELSE @,
                     !.loading = FALSE]
    /\ UNCHANGED <<clock, metadata, privacySettings, pc, gen, isGeneratingProof,
                   generatedCapsule, alerts, vaults, photos, generations, faults,
                   history, platformOS, verifyVars, currentStep, probe, modal, save>>

\* openPhotoDetails on the i-th item; the modal mounts and its effect runs
openPhotoDetails(i) ==
    /\ ~gallery.loading
    /\ ~gallery.modalVisible
    /\ i \in DOMAIN gallery.photos
    /\ gallery' = [gallery EXCEPT !.selectedPhoto = Some(gallery.photos[i]),
                                  !.modalVisible = TRUE]
    /\ modal' = ModalEffect(IF gallery.selectedPhoto = None THEN ModalInit ELSE modal,
                            gallery.photos[i])
    /\ UNCHANGED <<clock, metadata, privacySettings, pc, gen, isGeneratingProof,
                   generatedCapsule, alerts, vaults, photos, generations, faults,
                   history, platformOS, verifyVars, currentStep, probe, save>>

\* closeModal: the modal unmounts; a running saveChanges keeps running
closeModal ==
    /\ gallery.selectedPhoto # None
    /\ gallery.modalVisible
    /\ gallery' = [gallery EXCEPT !.selectedPhoto = None, !.modalVisible = FALSE]
    /\ modal' = ModalInit
    /\ save' = IF save.pc = "idle" THEN save ELSE [save EXCEPT !.detached = TRUE]
    /\ UNCHANGED <<clock, metadata, privacySettings, pc, gen, isGeneratingProof,
                   generatedCapsule, alerts, vaults, photos, generations, faults,
                   history, platformOS, verifyVars, currentStep, probe>>

toggleEditMode ==
    /\ gallery.selectedPhoto # None
    /\ gallery.modalVisible
    /\ modal' = [modal EXCEPT
                   !.editMode = ~@,
                   !.updatedPhoto = IF ~modal.editMode THEN gallery.selectedPhoto ELSE @]
    /\ UNCHANGED <<clock, metadata, privacySettings, pc, gen, isGeneratingProof,
                   generatedCapsule, alerts, vaults, photos, generations, faults,
                   history, platformOS, verifyVars, currentStep, probe, gallery, save>>

toggleClaimReveal(claimType, maxEdits) ==
    /\ gallery.selectedPhoto # None
    /\ gallery.modalVisible
    /\ modal.editMode
    /\ history.edits < maxEdits
    /\ history' = [history EXCEPT !.edits = @ + 1]
    /\ modal' = [modal EXCEPT
         !.revealedClaims = [@ EXCEPT ![claimType] = ~@],
         !.updatedPhoto =
             IF modal.updatedPhoto = None THEN @
             ELSE Some(WithPublicClaims(modal.updatedPhoto[1],
                      \* !revealedClaims.x ? "false" : "true", on the state before the switch
                      Put(modal.updatedPhoto[1].zkCapsule.public_claims, FlagKey(claimType),
                          IF ~modal.revealedClaims[claimType] THEN "false" ELSE "true")))]
    /\ UNCHANGED <<clock, metadata, privacySettings, pc, gen, isGeneratingProof,
                   generatedCapsule, alerts, vaults, photos, generations, faults,
                   platformOS, verifyVars, currentStep, probe, gallery, save>>

updateClaimLevel(claimType, level, maxEdits) ==
    /\ gallery.selectedPhoto # None
    /\ gallery.modalVisible
    /\ modal.editMode
    /\ modal.revealedClaims[claimType]
    /\ history.edits < maxEdits
    /\ history' = [history EXCEPT !.edits = @ + 1]
    /\ modal' = [modal EXCEPT
         !.selectedLevels = [@ EXCEPT ![claimType] = level],
         !.updatedPhoto =
             IF modal.updatedPhoto = None THEN @
             ELSE Some(WithPublicClaims(modal.updatedPhoto[1],
                      LevelClaims(gallery.selectedPhoto[1],
                                  modal.updatedPhoto[1].zkCapsule.public_claims,
                                  claimType, level)))]
    /\ UNCHANGED <<clock, metadata, privacySettings, pc, gen, isGeneratingProof,
                   generatedCapsule, alerts, vaults, photos, generations, faults,
                   platformOS, verifyVars, currentStep, probe, gallery, save>>

\* saveChanges persisting the capsule generateUpdatedCapsule returned, as its
\* comments announce
UpdatedPhotoWithNewCapsule(m, photo, now) ==
    [m.updatedPhoto[1] EXCEPT
       !.zkCapsule = generateUpdatedCapsule(photo, m.revealedClaims, m.selectedLevels, now)]

\* the photo saveChanges persists and hands to the gallery screen:
\* updatedPhoto with the five circuit results written from the switches
UpdatedPhotoWithCapsule(m, photo, now) ==
    WithPublicClaims(m.updatedPhoto[1],
        RevealedFlags(m.updatedPhoto[1].zkCapsule.public_claims, m.revealedClaims))

\* saveChanges up to the await of AsyncStorage.getItem
saveChanges(maxSaves) ==
    /\ gallery.selectedPhoto # None
    /\ gallery.modalVisible
    /\ modal.editMode
    /\ ~modal.isSaving
    /\ save.pc = "idle"
    /\ modal.updatedPhoto # None
    /\ history.saves < maxSaves
    /\ history' = [history EXCEPT !.saves = @ + 1]
    /\ modal' = [modal EXCEPT !.isSaving = TRUE]
    /\ save' = [pc |-> "read",
                newCapsule |-> Some(generateUpdatedCapsule(gallery.selectedPhoto[1],
                                   modal.revealedClaims, modal.selectedLevels, DateNow)),
                updatedPhotoWithCapsule |->
                    Some(UpdatedPhotoWithCapsule(modal, gallery.selectedPhoto[1], DateNow)),
                allPhotos |-> <<>>,
                \* onUpdatePhoto closes over the photos of this render
                handlerPhotos |-> gallery.photos,
                detached |-> FALSE]
    /\ UNCHANGED <<clock, metadata, privacySettings, pc, gen, isGeneratingProof,
                   generatedCapsule, alerts, vaults, photos, generations, faults,
                   platformOS, verifyVars, currentStep, probe, gallery>>

\* allPhotos.findIndex(p => p.id === id): 0 stands for -1
RECURSIVE findIndex(_, _, _)
findIndex(allPhotos, id, i) ==
    IF i > Len(allPhotos) THEN 0
    ELSE IF allPhotos[i].id = id THEN i
    ELSE findIndex(allPhotos, id, i + 1)

\* saveChanges: catch (error) { Alert 'Error' } finally { setIsSaving(false) }
SaveCatch ==
    /\ alerts' = alerts \cup {"Error"}
    /\ modal' = IF save.detached THEN modal ELSE [modal EXCEPT !.isSaving = FALSE]
    /\ save' = SaveIdle

\* saveChanges: getItem resolved; the photo is looked up and setItem issued
SaveReadSucceeds ==
    /\ save.pc = "read"
    /\ LET id == save.updatedPhotoWithCapsule[1].id
           photoIndex == IF photos = None THEN 0 ELSE findIndex(photos[1], id, 1)
       IN  IF photoIndex = 0
           THEN SaveCatch
           ELSE /\ save' = [save EXCEPT
                             !.pc = "write",
                             !.allPhotos = [photos[1] EXCEPT ![photoIndex] =
                                               save.updatedPhotoWithCapsule[1]]]
                /\ UNCHANGED <<alerts, modal>>
    /\ UNCHANGED <<clock, metadata, privacySettings, pc, gen, isGeneratingProof,
                   generatedCapsule, vaults, photos, generations, faults,
                   history, platformOS, verifyVars, currentStep, probe, gallery>>

\* handleUpdatePhoto of the gallery screen
handleUpdatePhoto(g, handlerPhotos, updatedPhoto) ==
    [g EXCEPT
       !.photos = [i \in DOMAIN handlerPhotos |->
                     IF handlerPhotos[i].id = updatedPhoto.id THEN updatedPhoto
                     ELSE handlerPhotos[i]],
       !.selectedPhoto = Some(updatedPhoto)]

\* saveChanges: setItem resolved; local state, the parent's callback (whose
\* new photo prop makes the effect run again), the alert, the finally block
SaveWriteSucceeds ==
    /\ save.pc = "write"
    /\ photos' = Some(save.allPhotos)
    /\ gallery' = handleUpdatePhoto(gallery, save.handlerPhotos,
                                    save.updatedPhotoWithCapsule[1])
    /\ modal' = ModalEffect(
                    IF save.detached
                    THEN (IF gallery.selectedPhoto = None THEN ModalInit ELSE modal)
                    ELSE [modal EXCEPT !.updatedPhoto = save.updatedPhotoWithCapsule,
                                       !.editMode = FALSE, !.isSaving = FALSE],
                    save.updatedPhotoWithCapsule[1])
    /\ alerts' = alerts \cup {"Success"}
    /\ save' = SaveIdle
    /\ UNCHANGED <<clock, metadata, privacySettings, pc, gen, isGeneratingProof,
                   generatedCapsule, vaults, generations, faults,
                   history, platformOS, verifyVars, currentStep, probe>>

\* saveChanges: getItem or setItem rejected
SaveFails(maxFailures) ==
    /\ save.pc \in {"read", "write"}
    /\ faults < maxFailures
    /\ faults' = faults + 1
    /\ SaveCatch
    /\ UNCHANGED <<clock, metadata, privacySettings, pc, gen, isGeneratingProof,
                   generatedCapsule, vaults, photos, generations,
                   history, platformOS, verifyVars, currentStep, probe, gallery>>

\* the make tab is used before the gallery tab is first opened (the gallery
\* screen mounts on its first visit)
OnMakeTab == gallery.loading

\* the gallery tab is opened while the make screen waits for a capture
OnGalleryTab == currentStep = "loading" /\ pc \in {"idle", "done"}

\* captures and generations that meet no failure, then the gallery screen
\* and its modal
NextRevise ==
    \* two captures are more than a millisecond apart
    \/ OnMakeTab /\ metadata = None /\ clock <= generations /\ Tick
    \/ OnMakeTab /\ clock > generations /\ \E locationData \in LocationSet :
                        processPhoto(locationData, MaxGenerations)
    \/ OnMakeTab /\ \E ps \in SettingsSet : setPrivacySettings(ps)
    \/ OnMakeTab /\ StartGeneration
    \/ OnMakeTab /\ \E cid \in CidSet : UploadSucceeds(cid)
    \/ OnMakeTab /\ KeyReady
    \/ OnMakeTab /\ \E proof \in ProofSet : ProofSucceeds(proof, 1)
    \/ OnMakeTab /\ VaultWriteSucceeds
    \/ OnMakeTab /\ GalleryReadSucceeds
    \/ OnMakeTab /\ GalleryWriteSucceeds
    \/ OnMakeTab /\ resetData
    \/ OnGalleryTab /\ loadPhotos
    \/ OnGalleryTab /\ \E i \in 1..MaxGenerations : openPhotoDetails(i)
    \/ OnGalleryTab /\ closeModal
    \/ OnGalleryTab /\ toggleEditMode
    \/ OnGalleryTab /\ \E claimType \in ClaimTypes : toggleClaimReveal(claimType, MaxEdits)
    \/ OnGalleryTab /\ \E level \in TimeLevels : updateClaimLevel("time", level, MaxEdits)
    \/ OnGalleryTab /\ \E level \in LocationLevels :
                           updateClaimLevel("location", level, MaxEdits)
    \/ OnGalleryTab /\ saveChanges(MaxSaves)
    \/ OnGalleryTab /\ SaveReadSucceeds
    \/ OnGalleryTab /\ SaveWriteSucceeds
    \/ OnGalleryTab /\ SaveFails(MaxFailures)

\* the app as installed on one phone
InitRevise == Init /\ platformOS = "ios"

SpecRevise == InitRevise /\ [][NextRevise]_vars

\* new is old but for zkCapsule.public_claims
SameButClaims(old, new) ==
    [new EXCEPT !.zkCapsule = [@ EXCEPT !.public_claims = old.zkCapsule.public_claims]] = old

\* the stored photo, before the step, of which p is a revision
Revises(p) == \E i \in DOMAIN photos[1] : SameButClaims(photos[1][i], p)

\* C10: a save that goes through leaves every stored photo, the photo the
\* gallery screen holds and the modal's working copy equal to a photo stored
\* before it in everything but public_claims (capsule_id, proof and capsule
\* metadata included), and starts no proof generation
C10_SaveKeepsCapsule ==
    [][(save.pc = "write" /\ save'.pc = "idle" /\ faults' = faults) =>
          /\ DOMAIN photos'[1] = DOMAIN photos[1]
          /\ \A i \in DOMAIN photos[1] : SameButClaims(photos[1][i], photos'[1][i])
          /\ \A j \in DOMAIN gallery'.photos : Revises(gallery'.photos[j])
          /\ gallery'.selectedPhoto # None /\ Revises(gallery'.selectedPhoto[1])
          /\ modal'.updatedPhoto # None /\ Revises(modal'.updatedPhoto[1])
          /\ UNCHANGED <<pc, gen, generations, isGeneratingProof, generatedCapsule,
                         vaults>>]_vars

\* a revision has been saved: storage holds the modal's working copy, whose
\* claims are not those of the capsule as generated
C10_Witness ==
    /\ "Success" \in alerts
    /\ history.edits > 0
    /\ save.pc = "idle"
    /\ modal.updatedPhoto # None
    /\ \E i \in DOMAIN photos[1] : photos[1][i] = modal.updatedPhoto[1]
    /\ Has(modal.updatedPhoto[1].zkCapsule.public_claims, "time_claim")
    /\ modal.updatedPhoto[1].zkCapsule.public_claims.time_claim
           \notin {"Time not verified", "In November 2023"}

(***************************************************************************)
(* Revision of a capsule whose vault may be missing: the vault write of a  *)
(* capture may be rejected (storePrivateVault swallows the rejection),     *)
(* then the gallery screen and its modal are used.                         *)
(***************************************************************************)
MaxOrphans == 1

NextOrphan ==
    \/ OnMakeTab /\ metadata = None /\ clock <= generations /\ Tick
    \/ OnMakeTab /\ clock > generations /\ \E locationData \in LocationSet :
                        processPhoto(locationData, MaxOrphans)
    \/ OnMakeTab /\ \E ps \in SettingsSet : setPrivacySettings(ps)
    \/ OnMakeTab /\ StartGeneration
    \/ OnMakeTab /\ \E cid \in CidSet : UploadSucceeds(cid)
    \/ OnMakeTab /\ KeyReady
    \/ OnMakeTab /\ \E proof \in ProofSet : ProofSucceeds(proof, 1)
    \/ OnMakeTab /\ VaultWriteSucceeds
    \/ OnMakeTab /\ VaultWriteFails(MaxFailures)
    \/ OnMakeTab /\ GalleryReadSucceeds
    \/ OnMakeTab /\ GalleryWriteSucceeds
    \/ OnMakeTab /\ resetData
    \/ OnGalleryTab /\ loadPhotos
    \/ OnGalleryTab /\ \E i \in 1..MaxOrphans : openPhotoDetails(i)
    \/ OnGalleryTab /\ closeModal
    \/ OnGalleryTab /\ toggleEditMode
    \/ OnGalleryTab /\ \E claimType \in ClaimTypes : toggleClaimReveal(claimType, MaxEdits)
    \/ OnGalleryTab /\ \E level \in TimeLevels : updateClaimLevel("time", level, MaxEdits)
    \/ OnGalleryTab /\ \E level \in LocationLevels :
                           updateClaimLevel("location", level, MaxEdits)
    \/ OnGalleryTab /\ saveChanges(MaxSaves)
    \/ OnGalleryTab /\ SaveReadSucceeds
    \/ OnGalleryTab /\ SaveWriteSucceeds
    \/ OnGalleryTab /\ SaveFails(MaxFailures)

SpecOrphan == InitRevise /\ [][NextOrphan]_vars

\* the stored photo a running saveChanges is about to replace
StoredBeforeSave ==
    photos[1][findIndex(photos[1], save.updatedPhotoWithCapsule[1].id, 1)]

\* the switches a running saveChanges turns from hidden to revealed
RevealedBySave ==
    {claimType \in ClaimTypes :
        /\ Get(save.updatedPhotoWithCapsule[1].zkCapsule.public_claims,
               FlagKey(claimType)) = "true"
        /\ Get(StoredBeforeSave.zkCapsule.public_claims, FlagKey(claimType)) # "true"}

\* C11: a save that reveals a hidden field of a capsule that has no vault
\* ends with the stored photos unchanged and an error alert
C11_RevealWithoutVaultFails ==
    [][(/\ save.pc = "write"
        /\ save'.pc = "idle"
        /\ ~Has(vaults, save.updatedPhotoWithCapsule[1].zkCapsule.capsule_id)
        /\ RevealedBySave # {})
          => (photos' = photos /\ "Error" \in alerts')]_vars

(***************************************************************************)
(* Round trips of the modal: one capture with every category enabled at    *)
(* the levels the pickers were left at, then switches, saves that go       *)
(* through, and the level bubble of the level the capsule was generated at.*)
(***************************************************************************)
MaxTripEdits == 3

TripSettings ==
    {[AllOnPrivacySettings EXCEPT
        !.timeProof.level = lv.time, !.locationProof.level = lv.location,
        !.deviceProof.level = lv.device, !.imageReveal.level = lv.image] :
            lv \in LevelProfiles}

\* the level the capsule was generated at
GeneratedLevel(claimType) ==
    IF gen.ps = None THEN ""
    ELSE IF claimType = "time" THEN gen.ps[1].timeProof.level
    ELSE gen.ps[1].locationProof.level

NextRoundTrip ==
    \/ OnMakeTab /\ metadata = None /\ clock <= generations /\ Tick
    \/ OnMakeTab /\ clock > generations /\ \E locationData \in LocationWide :
                        processPhoto(locationData, MaxOrphans)
    \/ OnMakeTab /\ \E ps \in TripSettings : setPrivacySettings(ps)
    \/ OnMakeTab /\ StartGeneration
    \/ OnMakeTab /\ \E cid \in CidSet : UploadSucceeds(cid)
    \/ OnMakeTab /\ KeyReady
    \/ OnMakeTab /\ \E proof \in ProofSet : ProofSucceeds(proof, 1)
    \/ OnMakeTab /\ VaultWriteSucceeds
    \/ OnMakeTab /\ GalleryReadSucceeds
    \/ OnMakeTab /\ GalleryWriteSucceeds
    \/ OnMakeTab /\ resetData
    \/ OnGalleryTab /\ loadPhotos
    \/ OnGalleryTab /\ \E i \in 1..MaxOrphans : openPhotoDetails(i)
    \/ OnGalleryTab /\ toggleEditMode
    \/ OnGalleryTab /\ \E claimType \in ClaimTypes :
                           toggleClaimReveal(claimType, MaxTripEdits)
    \/ OnGalleryTab /\ GeneratedLevel("time") \in TimeLevels
                    /\ updateClaimLevel("time", GeneratedLevel("time"), MaxTripEdits)
    \/ OnGalleryTab /\ GeneratedLevel("location") \in LocationLevels
                    /\ updateClaimLevel("location", GeneratedLevel("location"),
                                        MaxTripEdits)
    \/ OnGalleryTab /\ saveChanges(MaxSaves)
    \/ OnGalleryTab /\ SaveReadSucceeds
    \/ OnGalleryTab /\ SaveWriteSucceeds

SpecRoundTrip == InitRevise /\ [][NextRoundTrip]_vars

\* the human-readable claim of public_claims each switch stands for
ClaimKey(claimType) ==
    CASE claimType = "time"      -> "time_claim"
      [] claimType = "location"  -> "location_claim"
      [] claimType = "device"    -> "device_claim"
      [] claimType = "authentic" -> "authenticity_claim"
      [] claimType = "image"     -> "image_content_claim"

\* C12: in the stored capsule of the last capture, a category that was
\* revealed when the capsule was generated and is revealed again after switches, saves and the choice
\* of its level of generation carries the claim string it was generated with
C12_RoundTripRestoresClaim ==
    (photos # None /\ gen.photoData # None) =>
        \A i \in DOMAIN photos[1] : \A claimType \in ClaimTypes :
            LET before == gen.photoData[1].zkCapsule.public_claims
                after  == photos[1][i].zkCapsule.public_claims
            IN  (photos[1][i].id = gen.photoData[1].id
                    /\ Get(before, FlagKey(claimType)) = "true"
                    /\ Get(after, FlagKey(claimType)) = "true")
                  => Get(after, ClaimKey(claimType)) = Get(before, ClaimKey(claimType))

\* two saves went through and the stored capsule is the generated one again,
\* with revealed categories
C12_Witness ==
    /\ history.saves = 2
    /\ history.edits = MaxTripEdits
    /\ save.pc = "idle"
    /\ photos # None /\ gen.photoData # None
    /\ photos[1][1] = gen.photoData[1]
    /\ Get(photos[1][1].zkCapsule.public_claims, "time_within_month") = "true"
    /\ Get(photos[1][1].zkCapsule.public_claims, "location_in_region") = "true"

\* the keys of public_claims that carry a value of the category of a switch
FieldKeys(claimType) ==
    CategoryKeys[IF claimType = "authentic" THEN "identity" ELSE claimType]
        \ {FlagKey(claimType), ClaimKey(claimType)}

\* the claim string capsule assembly writes for a category that is off
HiddenClaim(claimType) ==
    CASE claimType = "time"      -> "Time not verified"
      [] claimType = "location"  -> "Location not verified"
      [] claimType = "device"    -> "Device not verified"
      [] claimType = "authentic" -> "Identity not verified"
      [] claimType = "image"     -> "Image content private"

CarriesValue(claims, claimType) ==
    \/ DOMAIN claims \cap FieldKeys(claimType) # {}
    \/ /\ Has(claims, ClaimKey(claimType))
       /\ claims[ClaimKey(claimType)] # HiddenClaim(claimType)

\* the capsules in storage and the one the modal was opened on
RevisableCapsules ==
    GalleryCapsules \cup
        (IF gallery.selectedPhoto = None THEN {} ELSE {gallery.selectedPhoto[1].zkCapsule})

\* C13: in every persisted capsule and in the capsule the modal hands to
\* copy and share, a category whose reveal flag is off has no field key and
\* no claim string other than the one assembly writes for a disabled category
C13_HiddenCategoryCarriesNoValue ==
    \A capsule \in RevisableCapsules : \A claimType \in ClaimTypes :
        Get(capsule.public_claims, FlagKey(claimType)) # "true"
            => ~CarriesValue(capsule.public_claims, claimType)


(***************************************************************************)
(* Verify screen.  The text to verify is a string; JSON.parse is the       *)
(* inverse of JSON.stringify over the capsules below and a SyntaxError     *)
(* elsewhere.  The results view is the Modal rendered when                 *)
(* verificationResult is 'valid' and a capsule is parsed.  The offers of   *)
(* a capsule are left out.                                                 *)
(***************************************************************************)
\* everything the verify screen neither reads nor writes, but for the vaults
\* it reads
appVars == <<metadata, privacySettings, pc, gen, isGeneratingProof,
             generatedCapsule, vaults, photos, generations, faults, history,
             platformOS, currentStep, probe, gallery, modal, save>>

otherVars == <<appVars, sessionVars>>

\* String.prototype.trim, startsWith
RECURSIVE trimStart(_)
trimStart(s) == IF Len(s) > 0 /\ SubSeq(s, 1, 1) = " "
                THEN trimStart(SubSeq(s, 2, Len(s))) ELSE s

RECURSIVE trimEnd(_)
trimEnd(s) == IF Len(s) > 0 /\ SubSeq(s, Len(s), Len(s)) = " "
              THEN trimEnd(SubSeq(s, 1, Len(s) - 1)) ELSE s

trim(s) == trimEnd(trimStart(s))

startsWith(s, prefix) == Len(s) >= Len(prefix) /\ SubSeq(s, 1, Len(prefix)) = prefix

\* the keys of a capsule and of its parts, in the order they are inserted
JSONKeys == <<"capsule_id", "public_claims", "proof", "metadata",
              "time_claim", "time_lock_until", "time_lock_type", "allowed_address",
              "a", "b", "c", "protocol", "curve",
              "proof_scheme", "circuit_version", "image_hash", "verification_key">>

Quote(s) == "\"" \o s \o "\""

RECURSIVE Join(_, _)
Join(texts, i) == IF i > Len(texts) THEN ""
                  ELSE (IF i > 1 THEN "," ELSE "") \o texts[i] \o Join(texts, i + 1)

KeysOf(obj) == SelectSeq(JSONKeys, LAMBDA k : k \in DOMAIN obj)

\* JSON.stringify of an object whose values are strings
StringifyFlat(obj) ==
    LET keys == KeysOf(obj)
    IN  "{" \o Join([i \in 1..Len(keys) |-> Quote(keys[i]) \o ":" \o Quote(obj[keys[i]])], 1)
        \o "}"

\* JSON.stringify of a capsule: capsule_id is a string, the other parts objects
JSONstringify(capsule) ==
    LET keys == KeysOf(capsule)
    IN  "{" \o Join([i \in 1..Len(keys) |->
                        Quote(keys[i]) \o ":" \o
                        (IF keys[i] = "capsule_id" THEN Quote(capsule[keys[i]])
                         ELSE StringifyFlat(capsule[keys[i]]))], 1)
        \o "}"

\* the unlock time of the time-locked capsules: between the second and the
\* third value of the clocks
LockTime == <<1700000350, 0>>

VerifyCapsule(capsuleId, claims) ==
    [capsule_id    |-> capsuleId,
     public_claims |-> claims,
     proof         |-> [a |-> "a1", b |-> "b1", c |-> "c1", protocol |-> "groth16",
                        curve |-> "bn128"],
     metadata      |-> [proof_scheme |-> "circom 2", circuit_version |-> "multiplier2_v1",
                        image_hash |-> "5f3a9c1", verification_key |-> "7b2e4d0"]]

LockClaims == [time_claim |-> "In November 2023",
               time_lock_until |-> toISOString(LockTime),
               time_lock_type |-> "content"]

\* locked until LockTime and for a wallet; this device holds its vault
LockedCapsule == VerifyCapsule("1c9e2f", Put(LockClaims, "allowed_address", "0xABC"))
\* locked until LockTime; the vault on this device has no time_lock_data
EmptyLockCapsule == VerifyCapsule("2d8a31", LockClaims)
\* locked until LockTime; made on another device, no vault here
ForeignCapsule == VerifyCapsule("3e7b42", LockClaims)
\* no lock
PlainCapsule == VerifyCapsule("4f6c53", [time_claim |-> "In November 2023"])

Without(obj, key) == [k \in (DOMAIN obj) \ {key} |-> obj[k]]

\* an otherwise valid capsule with exactly one required field removed
RemovedFields == {"capsule_id", "public_claims", "proof", "verification_key"}
FieldRemoved(capsule, field) ==
    IF field = "verification_key"
    THEN [capsule EXCEPT !.metadata = Without(capsule.metadata, field)]
    ELSE Without(capsule, field)

\* a capsule whose proof lacks one of its three components
UnprovenCapsule == [PlainCapsule EXCEPT !.proof = Without(PlainCapsule.proof, "a")]

CapsuleUniverse ==
    {LockedCapsule, EmptyLockCapsule, ForeignCapsule, PlainCapsule, UnprovenCapsule}
    \cup {FieldRemoved(LockedCapsule, field) : field \in RemovedFields}

\* locked for another wallet; the vault on this device has no receiver_lock_data
RivalCapsule ==
    VerifyCapsule("5a4d64", [time_claim |-> "In November 2023", allowed_address |-> "0xDEF"])

\* the objects JSON.parse can return
ParsedUniverse == CapsuleUniverse \cup {RivalCapsule}

IsNumberText(text) ==
    /\ Len(text) > 0
    /\ \A i \in 1..Len(text) : \E d \in 0..9 : SubSeq(text, i, i) = HexDigit(d)

\* JSON.parse: a value, or the SyntaxError it throws
JSONparse(text) ==
    IF text = "null" THEN [kind |-> "null"]
    ELSE IF IsNumberText(text) THEN [kind |-> "number"]
    ELSE IF \E capsule \in ParsedUniverse : JSONstringify(capsule) = text
    THEN [kind |-> "object",
          value |-> CHOOSE capsule \in ParsedUniverse : JSONstringify(capsule) = text]
    ELSE [kind |-> "SyntaxError"]

\* obj[key] is a non-empty string; obj[key] is an object
HasText(obj, key) == key \in DOMAIN obj /\ obj[key] # ""
HasObject(obj, key) == key \in DOMAIN obj

\* the content identifiers the URLs below name
VerifyCid == "Qmk3v9x1c7b2n"

ProofInputs ==
    {"", "not a capsule", "null", "5",
     getIPFSUrl(VerifyCid), "  " \o getIPFSUrl(VerifyCid) \o " ",
     "https://ipfs.io/ipfs/" \o VerifyCid,
     "https://example.com/ipfs/" \o VerifyCid,
     "http://gateway.local/ipfs/" \o VerifyCid,
     "https://example.com/capsule.json"}
    \cup {JSONstringify(capsule) : capsule \in CapsuleUniverse}

\* the bodies a gateway answers with
FetchedBodies ==
    {"not a capsule", JSONstringify(LockedCapsule), JSONstringify(PlainCapsule),
     JSONstringify(FieldRemoved(LockedCapsule, "proof"))}


\* new Date(text) of an ISO string: the inverse of toISOString over the times
\* of the model, and the Invalid Date otherwise
InvalidDate == <<>>
DateUniverse == {ClockTimes[i] : i \in 1..Len(ClockTimes)} \cup {LockTime, UnlockTime}
NewDate(text) ==
    IF \E t \in DateUniverse : toISOString(t) = text
    THEN CHOOSE t \in DateUniverse : toISOString(t) = text
    ELSE InvalidDate

\* d1 < d2 of two Dates: false when either is the Invalid Date
DateLess(d1, d2) == d1 # InvalidDate /\ d2 # InvalidDate /\ TimeLess(d1, d2)

\* d2.getTime() - d1.getTime()
MillisBetween(d1, d2) == (d2[1] - d1[1]) * 1000 + (d2[2] - d1[2])

\* the time a time server reports
GlobalNow == ClockTimes[globalClock]

\* fetchGlobalTime: a server answered, or all failed and the device time is
\* used after a warning
GlobalTimeOutcomes ==
    {[time |-> GlobalNow, fallback |-> FALSE], [time |-> DateNow, fallback |-> TRUE]}

TimeSyncAlerts(outcome) == IF outcome.fallback THEN {"Time Sync Warning"} ELSE {}

\* loadPrivateVault: the parsed vault, or null
loadPrivateVault(capsuleId) ==
    IF Has(vaults, capsuleId) THEN Some(vaults[capsuleId]) ELSE None

HasTimeLock(capsule) == HasText(capsule.public_claims, "time_lock_until")
HasWalletLock(capsule) == HasText(capsule.public_claims, "allowed_address")

\* checkTimeLockStatus up to the await of fetchGlobalTime
CheckStart(capsule) ==
    [pc |-> "time", capsule |-> Some(capsule),
     unlockTime |-> Some(NewDate(capsule.public_claims.time_lock_until)),
     currentTime |-> None]

\* a locked state whose remaining time is the time elapsed since the unlock time
LockedStateElapsed(unlockTime, currentTime) ==
    [isLocked      |-> TRUE,
     unlockTime    |-> Some(unlockTime),
     lockedData    |-> None,
     currentTime   |-> Some(currentTime),
     timeRemaining |-> MillisBetween(unlockTime, currentTime)]

\* the state checkTimeLockStatus sets when the current time is before the
\* unlock time
LockedState(unlockTime, currentTime) ==
    [isLocked      |-> TRUE,
     unlockTime    |-> Some(unlockTime),
     lockedData    |-> None,
     currentTime   |-> Some(currentTime),
     timeRemaining |-> MillisBetween(currentTime, unlockTime)]

\* the state it sets otherwise, the vault read
UnlockedState(unlockTime, currentTime, privateVault) ==
    [isLocked      |-> FALSE,
     unlockTime    |-> Some(unlockTime),
     lockedData    |-> IF privateVault # None
                          /\ HasText(privateVault[1].original_values, "time_lock_data")
                       THEN Some(privateVault[1].original_values.time_lock_data)
                       ELSE None,
     currentTime   |-> Some(currentTime),
     timeRemaining |-> 0]

\* the state checkWalletLockStatus sets for a wallet-locked capsule: no
\* wallet is ever connected
WalletLockedState(capsule, privateVault) ==
    [isLocked         |-> TRUE,
     allowedAddress   |-> Some(capsule.public_claims.allowed_address),
     connectedWallet  |-> None,
     encryptedContent |-> IF privateVault # None
                             /\ HasText(privateVault[1].original_values, "receiver_lock_data")
                          THEN Some(privateVault[1].original_values.receiver_lock_data)
                          ELSE None,
     decryptedContent |-> None,
     isConnecting     |-> FALSE]

\* the parse and the first structure check alone
ThrowsOnTopLevel(parsed) ==
    CASE parsed.kind = "SyntaxError" -> TRUE
      [] parsed.kind = "null"        -> TRUE
      [] parsed.kind = "number"      -> TRUE
      [] OTHER ->
           LET capsule == parsed.value
           IN  \/ ~HasText(capsule, "capsule_id")
               \/ ~HasObject(capsule, "public_claims")
               \/ ~HasObject(capsule, "proof")
               \/ ~HasObject(capsule, "metadata")

\* what the parse and the two structure checks throw, if anything
ThrowsOn(parsed) ==
    CASE parsed.kind = "SyntaxError" -> TRUE    \* JSON.parse
      [] parsed.kind = "null"        -> TRUE    \* TypeError: parsed.capsule_id of null
      [] parsed.kind = "number"      -> TRUE    \* every field is undefined
      [] OTHER ->
           LET capsule == parsed.value
           IN  \/ ~HasText(capsule, "capsule_id")
               \/ ~HasObject(capsule, "public_claims")
               \/ ~HasObject(capsule, "proof")
               \/ ~HasObject(capsule, "metadata")
               \/ ~HasText(capsule.metadata, "verification_key")
               \/ ~HasText(capsule.metadata, "proof_scheme")

\* hasValidProof && hasValidMetadata && hasValidCapsuleId
isValid(capsule) ==
    /\ HasText(capsule.proof, "a") /\ HasText(capsule.proof, "b")
    /\ HasText(capsule.proof, "c")
    /\ HasText(capsule.metadata, "verification_key")
    /\ HasText(capsule.metadata, "image_hash")
    /\ HasText(capsule, "capsule_id") /\ Len(capsule.capsule_id) > 0

\* the input is taken for an IPFS URL
IsIPFSUrl(capsuleData) ==
    \/ startsWith(capsuleData, "https://gateway.pinata.cloud/ipfs/")
    \/ startsWith(capsuleData, "https://ipfs.io/ipfs/")
    \/ startsWith(capsuleData, "https://") /\ includes(capsuleData, "/ipfs/")

\* the Modal of the results is on screen
ResultsShown ==
    /\ verify.verificationResult = Some("valid")
    /\ verify.parsedCapsule # None
    /\ verify.showResultsModal

\* the catch block and the finally block of verifyProof
VerifyCatch(v) == [v EXCEPT !.verificationResult = Some("invalid")]

\* a function that ends without a finally block
VerifyNoFinally(v) == v

VerifyFinally(v) == [v EXCEPT !.isVerifying = FALSE]

\* typing, pasting or scanning puts a text in the input field
handleInputChange(text) ==
    /\ ~ResultsShown
    /\ verify' = [verify EXCEPT !.proofData = text]
    /\ UNCHANGED <<clock, alerts, vproof, refresh, globalClock>>
    /\ UNCHANGED otherVars

\* JSON.parse and the structure checks, up to the await of the simulated
\* verification or through catch and finally
ParseAndValidate(v, capsuleData, fetched, raised) ==
    LET parsed == JSONparse(capsuleData)
    IN  IF ThrowsOn(parsed)
        THEN /\ verify' = VerifyFinally(VerifyCatch(v))
             /\ alerts' = raised \cup {"Verification Failed"}
             /\ vproof' = VerifyProofIdle
        ELSE /\ verify' = v
             /\ alerts' = raised
             /\ vproof' = [VerifyProofIdle EXCEPT !.pc = "simulate",
                                                  !.capsuleData = capsuleData,
                                                  !.fetched = fetched,
                                                  !.parsed = Some(parsed.value)]

\* the verify button is pressed (it is disabled while isVerifying)
verifyProof ==
    /\ vproof.pc = "idle"
    /\ ~verify.isVerifying
    /\ ~ResultsShown
    /\ IF trim(verify.proofData) = ""
       THEN /\ alerts' = {"Error"}
            /\ UNCHANGED <<verify, vproof>>
       ELSE LET capsuleData == trim(verify.proofData)
                started == [verify EXCEPT !.isVerifying = TRUE,
                                          !.verificationResult = None,
                                          !.parsedCapsule = None,
                                          !.showFallingPhrases = TRUE]
            IN  IF IsIPFSUrl(capsuleData)
                THEN /\ verify' = started
                     /\ alerts' = {}
                     /\ vproof' = [VerifyProofIdle EXCEPT !.pc = "fetch",
                                                          !.capsuleData = capsuleData]
                ELSE ParseAndValidate(started, capsuleData, FALSE, {})
    /\ UNCHANGED <<clock, refresh, globalClock>>
    /\ UNCHANGED otherVars

\* the gateway answered with a body
FetchSucceeds(body) ==
    /\ vproof.pc = "fetch"
    /\ ParseAndValidate(verify, body, TRUE, alerts)
    /\ UNCHANGED <<clock, refresh, globalClock>>
    /\ UNCHANGED otherVars

\* a failed fetch that is handled as a failed verification
FetchFailsAsInvalid ==
    /\ vproof.pc = "fetch"
    /\ alerts' = alerts \cup {"IPFS Error"}
    /\ verify' = VerifyFinally(VerifyCatch(verify))
    /\ vproof' = VerifyProofIdle
    /\ UNCHANGED <<clock, refresh, globalClock>>
    /\ UNCHANGED otherVars

\* the fetch threw or the status was not OK
FetchFails ==
    /\ vproof.pc = "fetch"
    /\ alerts' = alerts \cup {"IPFS Error"}
    /\ verify' = VerifyFinally([verify EXCEPT !.isVerifying = FALSE])
    /\ vproof' = VerifyProofIdle
    /\ UNCHANGED <<clock, refresh, globalClock>>
    /\ UNCHANGED otherVars

\* verifyProof from the return of checkTimeLockStatus: checkWalletLockStatus
\* up to its await of loadPrivateVault, or through the end
AfterTimeLock(v, capsule) ==
    IF HasWalletLock(capsule)
    THEN /\ verify' = v
         /\ vproof' = [vproof EXCEPT !.pc = "walletLock", !.check = CheckIdle]
    ELSE /\ verify' = VerifyFinally([v EXCEPT !.walletLockState = WalletLockInit,
                                              !.showResultsModal = TRUE])
         /\ vproof' = VerifyProofIdle

\* the two seconds of the simulated verification are over
ProofSimulated ==
    /\ vproof.pc = "simulate"
    /\ LET parsed == vproof.parsed[1]
           accepted == [verify EXCEPT !.parsedCapsule = Some(parsed),
                                      !.verificationResult = Some("valid")]
       IN  IF isValid(parsed)
           THEN /\ UNCHANGED alerts
                /\ IF HasTimeLock(parsed)
                   THEN /\ verify' = [accepted EXCEPT !.isLoadingTime = TRUE]
                        /\ vproof' = [vproof EXCEPT !.pc = "timeLock",
                                                    !.check = CheckStart(parsed)]
                   ELSE AfterTimeLock([accepted EXCEPT !.timeLockState = TimeLockInit],
                                      parsed)
           ELSE /\ verify' = VerifyFinally([verify EXCEPT
                                              !.verificationResult = Some("invalid")])
                /\ alerts' = alerts \cup {"Verification Failed"}
                /\ vproof' = VerifyProofIdle
    /\ UNCHANGED <<clock, refresh, globalClock>>
    /\ UNCHANGED otherVars

\* fetchGlobalTime returned to the checkTimeLockStatus verifyProof awaits
VerifyTimeFetched(outcome) ==
    /\ vproof.pc = "timeLock"
    /\ vproof.check.pc = "time"
    /\ alerts' = alerts \cup TimeSyncAlerts(outcome)
    /\ LET check == vproof.check
           unlockTime == check.unlockTime[1]
           loaded == [verify EXCEPT !.isLoadingTime = FALSE]
       IN  IF DateLess(outcome.time, unlockTime)
           THEN AfterTimeLock([loaded EXCEPT !.timeLockState =
                                   LockedState(unlockTime, outcome.time)],
                              check.capsule[1])
           ELSE /\ verify' = loaded
                /\ vproof' = [vproof EXCEPT !.check.pc = "vault",
                                            !.check.currentTime = Some(outcome.time)]
    /\ UNCHANGED <<clock, refresh, globalClock>>
    /\ UNCHANGED otherVars

\* loadPrivateVault returned to it
VerifyVaultLoaded ==
    /\ vproof.pc = "timeLock"
    /\ vproof.check.pc = "vault"
    /\ LET check == vproof.check
       IN  AfterTimeLock([verify EXCEPT !.timeLockState =
                              UnlockedState(check.unlockTime[1], check.currentTime[1],
                                            loadPrivateVault(check.capsule[1].capsule_id))],
                         check.capsule[1])
    /\ UNCHANGED <<clock, alerts, refresh, globalClock>>
    /\ UNCHANGED otherVars

\* loadPrivateVault returned to checkWalletLockStatus: verifyProof ends
WalletVaultLoaded ==
    /\ vproof.pc = "walletLock"
    /\ LET capsule == vproof.parsed[1]
       IN  verify' = VerifyFinally([verify EXCEPT
                        !.walletLockState =
                            WalletLockedState(capsule, loadPrivateVault(capsule.capsule_id)),
                        !.showResultsModal = TRUE])
    /\ vproof' = VerifyProofIdle
    /\ UNCHANGED <<clock, alerts, refresh, globalClock>>
    /\ UNCHANGED otherVars

\* the close button of the results
verifyCloseModal ==
    /\ ResultsShown
    /\ verify' = [verify EXCEPT !.showResultsModal = FALSE]
    /\ UNCHANGED <<clock, alerts, vproof, refresh, globalClock>>
    /\ UNCHANGED otherVars

\* the interval of the timer effect fires: the effect keeps it while the
\* state is locked and has its two times.  One refresh runs at a time.
TimerTick ==
    /\ verify.timeLockState.isLocked
    /\ verify.timeLockState.unlockTime # None
    /\ verify.timeLockState.currentTime # None
    /\ LET now == DateNow
           remaining == MillisBetween(now, verify.timeLockState.unlockTime[1])
       IN  IF remaining <= 0
           THEN /\ refresh.pc = "idle"
                /\ LET unlocked == [verify EXCEPT !.timeLockState.isLocked = FALSE,
                                                  !.timeLockState.timeRemaining = 0]
                   IN  IF verify.parsedCapsule = None
                       THEN verify' = unlocked /\ UNCHANGED refresh
                       ELSE IF HasTimeLock(verify.parsedCapsule[1])
                       THEN /\ verify' = [unlocked EXCEPT !.isLoadingTime = TRUE]
                            /\ refresh' = CheckStart(verify.parsedCapsule[1])
                       ELSE /\ verify' = [unlocked EXCEPT !.timeLockState = TimeLockInit]
                            /\ UNCHANGED refresh
           ELSE /\ verify' = [verify EXCEPT !.timeLockState.timeRemaining = remaining,
                                            !.timeLockState.currentTime = Some(now)]
                /\ UNCHANGED refresh
    /\ UNCHANGED <<clock, alerts, vproof, globalClock>>
    /\ UNCHANGED otherVars

\* fetchGlobalTime returned to the checkTimeLockStatus the timer started
RefreshTimeFetched(outcome) ==
    /\ refresh.pc = "time"
    /\ alerts' = alerts \cup TimeSyncAlerts(outcome)
    /\ LET unlockTime == refresh.unlockTime[1]
           loaded == [verify EXCEPT !.isLoadingTime = FALSE]
       IN  IF DateLess(outcome.time, unlockTime)
           THEN /\ verify' = [loaded EXCEPT !.timeLockState =
                                  LockedState(unlockTime, outcome.time)]
                /\ refresh' = CheckIdle
           ELSE /\ verify' = loaded
                /\ refresh' = [refresh EXCEPT !.pc = "vault",
                                              !.currentTime = Some(outcome.time)]
    /\ UNCHANGED <<clock, vproof, globalClock>>
    /\ UNCHANGED otherVars

\* loadPrivateVault returned to it
RefreshVaultLoaded ==
    /\ refresh.pc = "vault"
    /\ verify' = [verify EXCEPT !.timeLockState =
                     UnlockedState(refresh.unlockTime[1], refresh.currentTime[1],
                                   loadPrivateVault(refresh.capsule[1].capsule_id))]
    /\ refresh' = CheckIdle
    /\ UNCHANGED <<clock, alerts, vproof, globalClock>>
    /\ UNCHANGED otherVars

\* the time the time servers report advances
GlobalTick ==
    /\ globalClock < Len(ClockTimes)
    /\ globalClock' = globalClock + 1
    /\ UNCHANGED <<clock, alerts, verify, vproof, refresh>>
    /\ UNCHANGED otherVars

\* the vault storePrivateVault wrote for a capsule made on this device
StoredVault(capsuleId, originalValues) ==
    [capsule_id |-> capsuleId, commitments |-> EmptyMap, salts |-> EmptyMap,
     original_values |-> originalValues]

\* the storage of a device that made LockedCapsule and EmptyLockCapsule
VerifyVaults ==
    Put(Put(EmptyMap, LockedCapsule.capsule_id,
            StoredVault(LockedCapsule.capsule_id,
                        [date_year |-> "2023", time_lock_data |-> "secret-X",
                         receiver_lock_data |-> "for-0xABC"])),
        EmptyLockCapsule.capsule_id,
        StoredVault(EmptyLockCapsule.capsule_id, [date_year |-> "2023"]))

InitVerify ==
    /\ clock \in 1..Len(ClockTimes)
    /\ metadata = None
    /\ privacySettings = DefaultPrivacySettings
    /\ pc = "idle"
    /\ gen = GenIdle
    /\ isGeneratingProof = FALSE
    /\ generatedCapsule = None
    /\ alerts = {}
    /\ vaults = VerifyVaults
    /\ photos = None
    /\ generations = 0
    /\ faults = 0
    /\ history = NoHistory
    /\ platformOS = "ios"
    /\ currentStep = "loading"
    /\ probe = None
    /\ gallery = GalleryInit
    /\ modal = ModalInit
    /\ save = SaveIdle
    /\ verify = VerifyInit
    /\ vproof = VerifyProofIdle
    /\ refresh = CheckIdle
    /\ globalClock \in 1..Len(ClockTimes)
    /\ SessionInit

\* the verify button and what follows it, the clocks standing still
NextVerify ==
    \/ vproof.pc = "idle" /\ \E text \in ProofInputs : handleInputChange(text)
    \/ verifyProof
    \/ \E body \in FetchedBodies : FetchSucceeds(body)
    \/ FetchFails
    \/ ProofSimulated
    \/ \E outcome \in GlobalTimeOutcomes : VerifyTimeFetched(outcome)
    \/ VerifyVaultLoaded
    \/ WalletVaultLoaded
    \/ verifyCloseModal

SpecVerify == InitVerify /\ [][NextVerify]_vars

\* the capsule texts that are accepted
LockInputs ==
    {JSONstringify(capsule) :
        capsule \in {LockedCapsule, EmptyLockCapsule, ForeignCapsule, PlainCapsule}}

\* accepted capsules, the two clocks and the timer
NextTimeLock ==
    \/ Tick
    \/ GlobalTick
    \/ vproof.pc = "idle" /\ \E text \in LockInputs : handleInputChange(text)
    \/ verifyProof
    \/ ProofSimulated
    \/ \E outcome \in GlobalTimeOutcomes : VerifyTimeFetched(outcome)
    \/ VerifyVaultLoaded
    \/ WalletVaultLoaded
    \/ verifyCloseModal
    \/ TimerTick
    \/ \E outcome \in GlobalTimeOutcomes : RefreshTimeFetched(outcome)
    \/ RefreshVaultLoaded

SpecTimeLock == InitVerify /\ [][NextTimeLock]_vars


\* the texts of the four capsules with one required field removed
RemovedTexts == {JSONstringify(FieldRemoved(LockedCapsule, field)) : field \in RemovedFields}

\* verifyProof ended by rejecting what it examined
Rejected ==
    /\ vproof.pc = "idle"
    /\ verify.verificationResult = Some("invalid")
    /\ verify.parsedCapsule = None
    /\ ~verify.isVerifying
    /\ ~ResultsShown
    /\ "Verification Failed" \in alerts
    /\ "IPFS Error" \notin alerts

\* C14: a step of verifyProof that examines a capsule with one of capsule_id,
\* public_claims, proof, metadata.verification_key removed, typed in or
\* fetched, ends the run with verificationResult 'invalid', no parsed
\* capsule, the results not shown, and the alert of a failed verification
\* rather than the one of a failed fetch.
C14_RemovedFieldRejected ==
    [][(\/ vproof.pc = "idle" /\ trim(verify.proofData) \in RemovedTexts /\ verifyProof
        \/ vproof.pc = "fetch" /\ \E body \in RemovedTexts : FetchSucceeds(body))
          => Rejected']_vars

\* the capsule without metadata.verification_key was rejected
C14_Witness ==
    /\ verify.proofData = JSONstringify(FieldRemoved(LockedCapsule, "verification_key"))
    /\ Rejected


C16_FetchFailureIsDistinct ==
    [][(vproof.pc = "fetch" /\ "IPFS Error" \in alerts')
          => (/\ vproof'.pc = "idle"
              /\ verify'.verificationResult = None
              /\ verify'.parsedCapsule = None
              /\ verify'.timeLockState = verify.timeLockState
              /\ verify'.walletLockState = verify.walletLockState
              /\ ~verify'.isVerifying
              /\ "Verification Failed" \notin alerts')]_vars

\* a fetch failed while the lock of an earlier capsule was still on screen
C16_Witness ==
    /\ vproof.pc = "idle"
    /\ "IPFS Error" \in alerts
    /\ IsIPFSUrl(trim(verify.proofData))
    /\ verify.verificationResult = None
    /\ verify.timeLockState.isLocked
    /\ verify.walletLockState.isLocked


\* the text is an HTTP or HTTPS URL
IsHttpUrl(text) == startsWith(text, "http://") \/ startsWith(text, "https://")

\* C17: a press of the verify button on a non-empty input goes to the network
\* exactly when the input is an HTTP or HTTPS URL, and what is then parsed
\* and validated is the fetched body; any other input is parsed as it is.
C17_UrlIsDereferenced ==
    [][(vproof.pc = "idle" /\ trim(verify.proofData) # "" /\ verifyProof)
          => (/\ IsHttpUrl(trim(verify.proofData)) <=> vproof'.pc = "fetch"
              /\ vproof'.pc = "simulate" =>
                     JSONstringify(vproof'.parsed[1]) = trim(verify.proofData))]_vars


\* the results of a time-locked capsule are established: no verifyProof runs
TimeLockView ==
    /\ vproof.pc = "idle"
    /\ verify.parsedCapsule # None
    /\ HasTimeLock(verify.parsedCapsule[1])
    /\ verify.timeLockState.unlockTime # None

\* C18: while the results of a time-locked capsule stay on, a time-lock state
\* that is unlocked is never followed by a locked one, whatever the device
\* clock and the time servers say.
C18_UnlockedIsTerminal ==
    [][(/\ TimeLockView
        /\ ~verify.timeLockState.isLocked
        /\ vproof'.pc = "idle"
        /\ verify'.parsedCapsule = verify.parsedCapsule)
          => ~verify'.timeLockState.isLocked]_vars


\* a checkTimeLockStatus, of verifyProof or of the timer, is handed a current
\* time before the unlock time of its capsule
CheckObservesEarlier ==
    \E outcome \in GlobalTimeOutcomes :
        \/ /\ vproof.pc = "timeLock" /\ vproof.check.pc = "time"
           /\ DateLess(outcome.time, vproof.check.unlockTime[1])
           /\ VerifyTimeFetched(outcome)
        \/ /\ refresh.pc = "time"
           /\ DateLess(outcome.time, refresh.unlockTime[1])
           /\ RefreshTimeFetched(outcome)

\* C19: a status check that is handed a current time before the unlock time
\* sets the locked state, and whenever the time-lock state is locked its
\* timeRemaining is positive and it carries no locked data.
C19_LockedHidesData ==
    /\ [][CheckObservesEarlier => verify'.timeLockState.isLocked]_vars
    /\ [](verify.timeLockState.isLocked =>
              /\ verify.timeLockState.timeRemaining > 0
              /\ verify.timeLockState.lockedData = None)

\* the capsule whose vault holds locked data is on screen, locked, a second
\* and more before its unlock time
C19_Witness ==
    /\ TimeLockView
    /\ verify.parsedCapsule = Some(LockedCapsule)
    /\ verify.timeLockState.isLocked
    /\ verify.timeLockState.currentTime = Some(ClockTimes[2])
    /\ verify.timeLockState.timeRemaining = MillisBetween(ClockTimes[2], LockTime)


\* original_values.time_lock_data of the vault of a capsule, if there is one
VaultLockedData(capsule) ==
    UnlockedState(LockTime, LockTime, loadPrivateVault(capsule.capsule_id)).lockedData

\* C20: while the results of a time-locked capsule are on and its time-lock
\* state is unlocked, the locked data exposed is that of the vault of this
\* capsule, and none when the vault or the value is absent.
C20_UnlockedExposesVaultData ==
    (TimeLockView /\ ~verify.timeLockState.isLocked) =>
        verify.timeLockState.lockedData \in {None, VaultLockedData(verify.parsedCapsule[1])}


\* C29: for a capsule the assembler returned, public_claims has
\* time_lock_until exactly when the vault holds original_values.time_lock_data,
\* and allowed_address exactly when it holds original_values.receiver_lock_data.
C29_LockClaimsMatchVault ==
    (generatedCapsule # None /\ Has(vaults, generatedCapsule[1].capsule_id)) =>
        LET claims == generatedCapsule[1].public_claims
            values == vaults[generatedCapsule[1].capsule_id].original_values
        IN  /\ Has(claims, "time_lock_until") <=> Has(values, "time_lock_data")
            /\ Has(claims, "allowed_address") <=> Has(values, "receiver_lock_data")


(***************************************************************************)
(* Deleting from the gallery.  The gallery screen reads the list once,     *)
(* when it mounts; the make screen stays mounted in its tab and appends    *)
(* to the stored list whenever a generation ends.                         *)
(***************************************************************************)

\* photos.filter(p => p.id !== photoId)
WithoutPhoto(list, photoId) == SelectSeq(list, LAMBDA p : p.id # photoId)

\* deletePhoto filtering the list as stored
DeleteFromStored(photoId) == WithoutPhoto(photos[1], photoId)

\* deletePhoto filtering the photos of the gallery screen's state
DeleteFromState(photoId) == WithoutPhoto(gallery.photos, photoId)

\* deletePhoto(selectedPhoto.id), 'Delete' pressed in the alert and setItem
\* resolved: the filtered list is stored, set as the screen's list, and the
\* modal is closed
deletePhoto ==
    /\ gallery.selectedPhoto # None
    /\ gallery.modalVisible
    /\ photos' = Some(DeleteFromState(gallery.selectedPhoto[1].id))
    /\ gallery' = [gallery EXCEPT
                     !.photos = DeleteFromState(gallery.selectedPhoto[1].id),
                     !.selectedPhoto = None, !.modalVisible = FALSE]
    /\ modal' = ModalInit
    /\ save' = IF save.pc = "idle" THEN save ELSE [save EXCEPT !.detached = TRUE]
    /\ UNCHANGED <<clock, metadata, privacySettings, pc, gen, isGeneratingProof,
                   generatedCapsule, alerts, vaults, generations, faults,
                   history, platformOS, verifyVars, currentStep, probe>>

\* deletePhoto: setItem rejected; catch { Alert 'Error' }
DeleteFails(maxFailures) ==
    /\ gallery.selectedPhoto # None
    /\ gallery.modalVisible
    /\ faults < maxFailures
    /\ faults' = faults + 1
    /\ alerts' = alerts \cup {"Error"}
    /\ UNCHANGED <<clock, metadata, privacySettings, pc, gen, isGeneratingProof,
                   generatedCapsule, vaults, photos, generations,
                   history, platformOS, verifyVars, currentStep, probe, gallery,
                   modal, save>>

\* captures and generations on the make tab at any time; the gallery tab,
\* once opened, lists, shows and deletes
NextDelete ==
    \/ metadata = None /\ clock <= generations /\ Tick
    \/ clock > generations /\ \E locationData \in LocationSet :
                        processPhoto(locationData, MaxGenerations)
    \/ StartGeneration
    \/ \E cid \in CidSet : UploadSucceeds(cid)
    \/ KeyReady
    \/ \E proof \in ProofSet : ProofSucceeds(proof, 1)
    \/ VaultWriteSucceeds
    \/ GalleryReadSucceeds
    \/ GalleryWriteSucceeds
    \/ resetData
    \/ OnGalleryTab /\ loadPhotos
    \/ OnGalleryTab /\ \E i \in 1..MaxGenerations : openPhotoDetails(i)
    \/ OnGalleryTab /\ closeModal
    \/ OnGalleryTab /\ deletePhoto
    \/ OnGalleryTab /\ DeleteFails(MaxFailures)

SpecDelete == InitRevise /\ [][NextDelete]_vars

\* C30: a delete that goes through removes from the stored list exactly the
\* entries with the given id and leaves every other stored entry in place,
\* whatever was appended to the list after the gallery screen read it
C30_DeleteRemovesOnlyTarget ==
    [][(gallery.modalVisible /\ deletePhoto) =>
          photos' = Some(DeleteFromStored(gallery.selectedPhoto[1].id))]_vars


\* the circuit results of the modal's working copy say what the switches say
FlagsMatchSwitches(m) ==
    \A claimType \in ClaimTypes :
        (Get(m.updatedPhoto[1].zkCapsule.public_claims, FlagKey(claimType)) = "true")
            <=> m.revealedClaims[claimType]

\* C28: after every toggleClaimReveal, for each category the flag in
\* updatedPhoto.zkCapsule.public_claims is "true" exactly when the switch of
\* revealedClaims is on
C28_FlagsFollowSwitches ==
    [][(/\ modal.editMode
        /\ modal'.revealedClaims # modal.revealedClaims
        /\ modal'.updatedPhoto # None
        /\ \E claimType \in ClaimTypes : toggleClaimReveal(claimType, MaxEdits))
          => FlagsMatchSwitches(modal')]_vars


\* C27: the photo that a save stores and hands to onUpdatePhoto carries the
\* public_claims of the capsule generateUpdatedCapsule computed for the
\* switches and levels of that save (time_level and location_level included)
C27_SavedClaimsAreGenerated ==
    [][(save.pc = "write" /\ save'.pc = "idle" /\ faults' = faults) =>
          /\ \E i \in DOMAIN photos'[1] :
                /\ photos'[1][i].id = save.updatedPhotoWithCapsule[1].id
                /\ photos'[1][i].zkCapsule.public_claims = save.newCapsule[1].public_claims
          /\ gallery'.selectedPhoto # None
          /\ gallery'.selectedPhoto[1].zkCapsule.public_claims
                 = save.newCapsule[1].public_claims]_vars


(***************************************************************************)
(* The wallet lock.  Addresses are abbreviated to three hexadecimal        *)
(* digits.  One connectWallet runs at a time.                             *)
(***************************************************************************)

UpperCase == "ABCDEFGHIJKLMNOPQRSTUVWXYZ"
LowerCase == "abcdefghijklmnopqrstuvwxyz"

\* String.prototype.toLowerCase
RECURSIVE toLowerCase(_)
toLowerCase(s) ==
    IF s = "" THEN ""
    ELSE LET c == SubSeq(s, 1, 1)
             hits == {i \in 1..Len(UpperCase) : SubSeq(UpperCase, i, i) = c}
         IN  (IF hits = {} THEN c
              ELSE LET i == CHOOSE i \in hits : TRUE IN SubSeq(LowerCase, i, i))
             \o toLowerCase(SubSeq(s, 2, Len(s)))

\* '0x' + Math.random().toString(16).substring(2, 42).padEnd(40, '0')
RandomWallets == {"0xabc", "0x9f3"}

\* the connect button of the wallet section is pressed (it is shown while the
\* state is locked and disabled while isConnecting)
connectWallet ==
    /\ ResultsShown
    /\ HasWalletLock(verify.parsedCapsule[1])
    /\ verify.walletLockState.isLocked
    /\ ~verify.walletLockState.isConnecting
    /\ wallet.pc = "idle"
    /\ verify.walletLockState.allowedAddress # None
    /\ verify' = [verify EXCEPT !.walletLockState.isConnecting = TRUE]
    /\ wallet' = [pc |-> "delay",
                  allowedAddress |-> verify.walletLockState.allowedAddress,
                  encryptedContent |-> verify.walletLockState.encryptedContent]
    /\ UNCHANGED <<clock, alerts, vproof, refresh, globalClock, market, timeSync, capture>>
    /\ UNCHANGED appVars

\* the 1500 ms are over: the alert with the three scenarios is shown
WalletDelayOver ==
    /\ wallet.pc = "delay"
    /\ wallet' = [wallet EXCEPT !.pc = "alert"]
    /\ alerts' = alerts \cup {"Wallet Connection Simulation"}
    /\ UNCHANGED <<clock, verify, vproof, refresh, globalClock, market, timeSync, capture>>
    /\ UNCHANGED appVars

\* connectWallet from isMatch on: the functional update of walletLockState
Connected(prev, simulatedWallet, allowedAddress, encryptedContent) ==
    LET isMatch == toLowerCase(simulatedWallet) = toLowerCase(allowedAddress)
    IN  [prev EXCEPT !.connectedWallet  = Some(simulatedWallet),
                     !.isLocked         = ~isMatch,
                     !.decryptedContent = IF isMatch THEN encryptedContent ELSE None,
                     !.isConnecting     = FALSE]

\* 'Cancel' is pressed in the alert
WalletCancelled ==
    /\ wallet.pc = "alert"
    /\ verify' = [verify EXCEPT !.walletLockState.isConnecting = FALSE]
    /\ wallet' = ConnectIdle
    /\ UNCHANGED <<clock, alerts, vproof, refresh, globalClock, market, timeSync, capture>>
    /\ UNCHANGED appVars

\* 'Correct Wallet' or 'Wrong Wallet' is pressed: simulatedWallet is the
\* allowed address of the closure, or a random one
WalletChosen(simulatedWallet) ==
    /\ wallet.pc = "alert"
    /\ simulatedWallet \in {wallet.allowedAddress[1]} \cup RandomWallets
    /\ LET isMatch == toLowerCase(simulatedWallet) = toLowerCase(wallet.allowedAddress[1])
       IN  alerts' = alerts \cup
                        (IF isMatch /\ wallet.encryptedContent # None THEN {"Success!"}
                         ELSE IF ~isMatch THEN {"Access Denied"} ELSE {})
    /\ verify' = [verify EXCEPT !.walletLockState =
                     Connected(@, simulatedWallet, wallet.allowedAddress[1],
                               wallet.encryptedContent)]
    /\ wallet' = ConnectIdle
    /\ UNCHANGED <<clock, vproof, refresh, globalClock, market, timeSync, capture>>
    /\ UNCHANGED appVars

\* the storage of a device that made LockedCapsule, EmptyLockCapsule and
\* RivalCapsule
WalletVaults ==
    Put(VerifyVaults, RivalCapsule.capsule_id,
        StoredVault(RivalCapsule.capsule_id, [date_year |-> "2023"]))

WalletInputs ==
    {JSONstringify(capsule) : capsule \in {LockedCapsule, RivalCapsule, PlainCapsule}}

Wallets == {"0xABC", "0xDEF"} \cup RandomWallets

InitWallet ==
    /\ clock = 1
    /\ metadata = None
    /\ privacySettings = DefaultPrivacySettings
    /\ pc = "idle"
    /\ gen = GenIdle
    /\ isGeneratingProof = FALSE
    /\ generatedCapsule = None
    /\ alerts = {}
    /\ vaults = WalletVaults
    /\ photos = None
    /\ generations = 0
    /\ faults = 0
    /\ history = NoHistory
    /\ platformOS = "ios"
    /\ currentStep = "loading"
    /\ probe = None
    /\ gallery = GalleryInit
    /\ modal = ModalInit
    /\ save = SaveIdle
    /\ verify = VerifyInit
    /\ vproof = VerifyProofIdle
    /\ refresh = CheckIdle
    /\ globalClock = 1
    /\ SessionInit

\* the alert of connectWallet is not on the screen
NoWalletAlert == wallet.pc # "alert"

\* verification and wallet connection, the clocks standing still before
\* LockTime, so that no time lock is over
NextWallet ==
    \/ NoWalletAlert /\ vproof.pc = "idle" /\ \E text \in WalletInputs : handleInputChange(text)
    \/ NoWalletAlert /\ verifyProof
    \* a verification begun after connectWallet: its 2000 ms end after the 1500 ms
    \/ wallet.pc # "delay" /\ ProofSimulated
    \/ \E outcome \in GlobalTimeOutcomes : VerifyTimeFetched(outcome)
    \/ WalletVaultLoaded
    \/ NoWalletAlert /\ verifyCloseModal
    \/ NoWalletAlert /\ connectWallet
    \/ WalletDelayOver
    \/ WalletCancelled
    \/ \E simulatedWallet \in Wallets : WalletChosen(simulatedWallet)

SpecWallet == InitWallet /\ [][NextWallet]_vars

\* receiver_lock_data of the stored vault of a capsule, if it has any
VaultReceiverData(capsule) ==
    LET privateVault == loadPrivateVault(capsule.capsule_id)
    IN  IF privateVault # None
           /\ HasText(privateVault[1].original_values, "receiver_lock_data")
        THEN Some(privateVault[1].original_values.receiver_lock_data)
        ELSE None

\* C26: whenever a capsule is parsed and the wallet lock is not locked though
\* an address is required, the connected wallet is that address up to case,
\* and the decrypted content is null or the receiver_lock_data of the vault
\* of the parsed capsule
C26_WalletStateConsistent ==
    LET state == verify.walletLockState
    IN  (verify.parsedCapsule # None /\ vproof.pc = "idle") =>
            /\ (~state.isLocked /\ state.allowedAddress # None) =>
                   /\ state.connectedWallet # None
                   /\ toLowerCase(state.connectedWallet[1])
                          = toLowerCase(state.allowedAddress[1])
            /\ state.decryptedContent
                   \in {None, VaultReceiverData(verify.parsedCapsule[1])}


\* what completing a connection with simulatedWallet must leave behind for a
\* parsed capsule that is locked for allowed_address
ConnectedFor(capsule, simulatedWallet, state) ==
    LET isMatch == toLowerCase(simulatedWallet)
                       = toLowerCase(capsule.public_claims.allowed_address)
    IN  /\ state.connectedWallet = Some(simulatedWallet)
        /\ state.isLocked = ~isMatch
        /\ state.decryptedContent = IF isMatch THEN VaultReceiverData(capsule) ELSE None

\* C21: for a parsed capsule with an allowed_address, a connectWallet that
\* completes with wallet w leaves connectedWallet = w, isLocked true exactly
\* when w differs from the allowed address up to case, decryptedContent null
\* on a mismatch and the vault's receiver_lock_data (or null) on a match; a
\* cancelled connectWallet changes isConnecting alone; and while the results
\* are shown and no wallet is connected the wallet lock is locked
C21_ConnectDecidesLock ==
    /\ [][\A simulatedWallet \in Wallets :
            (/\ wallet.pc = "alert"
             /\ verify.parsedCapsule # None
             /\ HasWalletLock(verify.parsedCapsule[1])
             /\ WalletChosen(simulatedWallet))
                => ConnectedFor(verify.parsedCapsule[1], simulatedWallet,
                                verify'.walletLockState)]_vars
    /\ [][(wallet.pc = "alert" /\ WalletCancelled) =>
            verify' = [verify EXCEPT !.walletLockState.isConnecting = FALSE]]_vars
    /\ []((/\ ResultsShown
           /\ HasWalletLock(verify.parsedCapsule[1])
           /\ verify.walletLockState.connectedWallet = None)
              => verify.walletLockState.isLocked)


(***************************************************************************)
(* fetchGlobalTime, one provider at a time.                               *)
(***************************************************************************)

timeAPIs == << "https://worldtimeapi.org/api/timezone/Etc/UTC",
               "https://api.ipgeolocation.io/timezone?apiKey=free",
               "http://worldclockapi.com/api/json/utc/now" >>

\* what a provider can answer: an OK response whose JSON has the time under
\* one of the three known keys or under none of them, a response that is not
\* OK, or a rejected fetch
TimeFields == {"datetime", "date_time", "currentDateTime"}
ProviderAnswers == TimeFields \cup {"unknown format", "not OK", "network error"}

\* the loop of fetchGlobalTime after the n-th provider answered, stopping at
\* the first failure
LoopStepNoRetry(n, answer) ==
    IF answer \in TimeFields THEN "return" ELSE "fallback"

\* the loop of fetchGlobalTime after the n-th provider answered
LoopStep(n, answer) ==
    IF answer \in TimeFields THEN "return"
    ELSE IF n < Len(timeAPIs) THEN "continue"
    ELSE "fallback"

\* fetchGlobalTime is called: setIsLoadingTime(true) and the first fetch
fetchGlobalTime ==
    /\ timeSync.pc = "idle"
    /\ verify' = [verify EXCEPT !.isLoadingTime = TRUE]
    /\ timeSync' = [pc |-> "fetch", api |-> 1, contacted |-> <<>>, result |-> None]
    /\ UNCHANGED <<clock, alerts, vproof, refresh, globalClock, wallet, market, capture>>
    /\ UNCHANGED appVars

\* the fetch of the provider in turn settled; finally { setIsLoadingTime(false) }
\* on the two ways out
ProviderAnswered(answer) ==
    /\ timeSync.pc = "fetch"
    /\ LET log == Append(timeSync.contacted,
                         [api |-> timeAPIs[timeSync.api], answer |-> answer,
                          time |-> GlobalNow])
           step == LoopStep(timeSync.api, answer)
       IN  CASE step = "return" ->
                  /\ timeSync' = [timeSync EXCEPT
                                    !.pc = "returned", !.contacted = log,
                                    !.result = Some([time |-> NewDate(toISOString(GlobalNow)),
                                                     fallback |-> FALSE])]
                  /\ verify' = [verify EXCEPT !.isLoadingTime = FALSE]
                  /\ UNCHANGED alerts
             [] step = "continue" ->
                  /\ timeSync' = [timeSync EXCEPT !.api = @ + 1, !.contacted = log]
                  /\ UNCHANGED <<verify, alerts>>
             [] step = "fallback" ->
                  /\ timeSync' = [timeSync EXCEPT
                                    !.pc = "returned", !.contacted = log,
                                    !.result = Some([time |-> DateNow, fallback |-> TRUE])]
                  /\ verify' = [verify EXCEPT !.isLoadingTime = FALSE]
                  /\ alerts' = alerts \cup {"Time Sync Warning"}
    /\ UNCHANGED <<clock, vproof, refresh, globalClock, wallet, market, capture>>
    /\ UNCHANGED appVars

\* the caller goes on with the time returned and the alert is dismissed
TimeReturned ==
    /\ timeSync.pc = "returned"
    /\ timeSync' = TimeSyncIdle
    /\ alerts' = {}
    /\ UNCHANGED <<clock, verify, vproof, refresh, globalClock, wallet, market, capture>>
    /\ UNCHANGED appVars

\* calls of fetchGlobalTime while the time of the providers advances
NextGlobalTime ==
    \/ GlobalTick
    \/ fetchGlobalTime
    \/ \E answer \in ProviderAnswers : ProviderAnswered(answer)
    \/ TimeReturned

\* the device clock is behind the providers' or equal to it
InitGlobalTime == InitVerify /\ clock = 1 /\ globalClock = 1

SpecGlobalTime == InitGlobalTime /\ [][NextGlobalTime]_vars

\* every fetch settles: the promise resolves or rejects
SpecGlobalTimeFair ==
    SpecGlobalTime /\ WF_vars(\E answer \in ProviderAnswers : ProviderAnswered(answer))

\* the providers contacted are the first of the list, in the order of the list
ContactedInOrder ==
    /\ Len(timeSync.contacted) <= Len(timeAPIs)
    /\ \A k \in DOMAIN timeSync.contacted : timeSync.contacted[k].api = timeAPIs[k]

\* all contacted providers but the last failed; the last one gave the time
\* returned, or it is the third, it failed too and the fallback is returned
ReturnedFromFirstAnswer ==
    timeSync.pc = "returned" =>
        LET log == timeSync.contacted
            n == Len(log)
            result == timeSync.result[1]
        IN  /\ n >= 1
            /\ \A k \in 1..(n - 1) : log[k].answer \notin TimeFields
            /\ IF log[n].answer \in TimeFields
               THEN ~result.fallback /\ result.time = log[n].time
               ELSE result.fallback /\ n = Len(timeAPIs)
            /\ ~verify.isLoadingTime

MaxOffers == 2

\* a number is <<n>>, n its thousandths; NaN is the empty tuple
NaN == <<>>
isNaN(number) == number = NaN

IsDigit(c) == \E d \in 0..9 : c = HexDigit(d)

\* the longest run of digits s begins with
RECURSIVE DigitRun(_)
DigitRun(s) ==
    IF Len(s) > 0 /\ IsDigit(SubSeq(s, 1, 1))
    THEN SubSeq(s, 1, 1) \o DigitRun(SubSeq(s, 2, Len(s)))
    ELSE ""

RECURSIVE ToNat(_)
ToNat(digits) ==
    IF digits = "" THEN 0
    ELSE ToNat(SubSeq(digits, 1, Len(digits) - 1)) * 10
           + (CHOOSE d \in 0..9 : HexDigit(d) = SubSeq(digits, Len(digits), Len(digits)))

\* parseFloat: the number the longest numeric prefix denotes, or NaN
parseFloat(text) ==
    LET s        == trimStart(text)
        negative == Len(s) > 0 /\ SubSeq(s, 1, 1) = "-"
        body     == IF negative THEN SubSeq(s, 2, Len(s)) ELSE s
        whole    == DigitRun(body)
        rest     == SubSeq(body, Len(whole) + 1, Len(body))
        frac     == IF Len(rest) > 0 /\ SubSeq(rest, 1, 1) = "."
                    THEN DigitRun(SubSeq(rest, 2, Len(rest))) ELSE ""
        milli    == ToNat(whole) * 1000 + ToNat(SubSeq(frac \o "000", 1, 3))
    IN  IF whole = "" /\ frac = "" THEN NaN
        ELSE IF negative THEN <<0 - milli>> ELSE <<milli>>

\* getAvailablePrivateDataTypes: type and label of what the capsule does not
\* disclose, in the order of the function
getAvailablePrivateDataTypes(capsule, timeLockState, walletLockState) ==
    LET publicClaims == capsule.public_claims
        Hidden(keys) == \A key \in keys : ~Truthy(Get(publicClaims, key))
        all == << [on |-> Hidden({"date_exact", "date_day", "date_month", "date_year"}),
                   type |-> "time_data", label |-> "Exact Time"],
                  [on |-> Hidden({"location_exact", "location_city", "location_country"}),
                   type |-> "location_data", label |-> "Exact Location"],
                  [on |-> Hidden({"device_type", "device_platform", "device_info"}),
                   type |-> "device_data", label |-> "Device Details"],
                  [on |-> Hidden({"image_cid", "image_description"}),
                   type |-> "image_content", label |-> "Image Content"],
                  [on |-> Hidden({"identity_verified"}),
                   type |-> "identity_data", label |-> "Identity Info"],
                  [on |-> timeLockState.isLocked,
                   type |-> "time_locked_data", label |-> "Time-Locked Secret"],
                  [on |-> walletLockState.isLocked,
                   type |-> "wallet_locked_data", label |-> "Wallet-Locked Content"] >>
    IN  SelectSeq(all, LAMBDA t : t.on)

AvailableTypes ==
    getAvailablePrivateDataTypes(verify.parsedCapsule[1], verify.timeLockState,
                                 verify.walletLockState)

\* the effect on [parsedCapsule] with loadOffers: setOffers only if the key
\* '@offers_<id>' holds something
loadOffers ==
    /\ market.effectFor # verify.parsedCapsule
    /\ market' = [market EXCEPT
                    !.effectFor = verify.parsedCapsule,
                    !.offers = IF verify.parsedCapsule # None
                                  /\ Has(market.stored, verify.parsedCapsule[1].capsule_id)
                               THEN market.stored[verify.parsedCapsule[1].capsule_id]
                               ELSE @]
    /\ UNCHANGED <<clock, alerts, verify, vproof, refresh, globalClock, wallet,
                   timeSync, capture>>
    /\ UNCHANGED appVars

\* 'Make Offer' in the results, and the close button of the offer modal
setShowOfferModal(visible) ==
    /\ ResultsShown
    /\ market.showOfferModal # visible
    /\ market' = [market EXCEPT !.showOfferModal = visible]
    /\ UNCHANGED <<clock, alerts, verify, vproof, refresh, globalClock, wallet,
                   timeSync, capture>>
    /\ UNCHANGED appVars

\* one of the data types listed in the offer modal is pressed
setSelectedDataType(type) ==
    /\ ResultsShown
    /\ market.showOfferModal
    /\ \E k \in DOMAIN AvailableTypes : AvailableTypes[k].type = type
    /\ market' = [market EXCEPT !.selectedDataType = type]
    /\ UNCHANGED <<clock, alerts, verify, vproof, refresh, globalClock, wallet,
                   timeSync, capture>>
    /\ UNCHANGED appVars

\* the amount field is edited
setOfferAmount(text) ==
    /\ ResultsShown
    /\ market.showOfferModal
    /\ market' = [market EXCEPT !.offerAmount = text]
    /\ UNCHANGED <<clock, alerts, verify, vproof, refresh, globalClock, wallet,
                   timeSync, capture>>
    /\ UNCHANGED appVars

\* Math.random().toString(36).substr(2, 9) and `0x${Math.random().toString(16)...}`
RandomSuffix == "k3j9x2m1q"
RandomOfferer == "0x7c1"

newOffer(capsule, selectedDataType, label, amount, currency, now) ==
    [id              |-> NatToString(now[1]) \o Pad3(now[2]) \o RandomSuffix,
     capsule_id      |-> capsule.capsule_id,
     data_type       |-> selectedDataType,
     data_label      |-> label,
     amount          |-> amount,
     currency        |-> currency,
     timestamp       |-> now,
     status          |-> "pending",
     offerer_address |-> RandomOfferer]

\* the submit button (disabled without a type, without an amount and while
\* submitting): the checks, then setOffers and the await of saveOffers
createOffer(maxOffers) ==
    /\ ResultsShown
    /\ market.showOfferModal
    /\ market.selectedDataType # "" /\ market.offerAmount # ""
    /\ ~market.isSubmittingOffer
    /\ market.create.pc = "idle"
    /\ market.created < maxOffers
    /\ LET amount == parseFloat(market.offerAmount)
           hits == SelectSeq(AvailableTypes, LAMBDA t : t.type = market.selectedDataType)
       IN  IF verify.parsedCapsule = None \/ market.selectedDataType = ""
              \/ market.offerAmount = ""
           THEN alerts' = alerts \cup {"Error"} /\ UNCHANGED market
           ELSE IF isNaN(amount) \/ amount[1] <= 0
           THEN alerts' = alerts \cup {"Error"} /\ UNCHANGED market
           ELSE IF hits = <<>>
           THEN alerts' = alerts \cup {"Error"} /\ UNCHANGED market
           ELSE LET updatedOffers ==
                        Append(market.offers,
                               newOffer(verify.parsedCapsule[1], market.selectedDataType,
                                        hits[1].label, amount[1], market.offerCurrency,
                                        DateNow))
                IN  /\ market' = [market EXCEPT
                                    !.isSubmittingOffer = TRUE,
                                    !.offers = updatedOffers,
                                    !.created = @ + 1,
                                    !.create = [pc |-> "save",
                                                capsuleId |-> verify.parsedCapsule[1].capsule_id,
                                                updatedOffers |-> updatedOffers,
                                                label |-> hits[1].label]]
                    /\ UNCHANGED alerts
    /\ UNCHANGED <<clock, verify, vproof, refresh, globalClock, wallet, timeSync, capture>>
    /\ UNCHANGED appVars

\* createOffer after saveOffers: the form is reset, the modal closed
OfferSubmitted(m) ==
    [m EXCEPT !.selectedDataType = "", !.offerAmount = "", !.showOfferModal = FALSE,
              !.isSubmittingOffer = FALSE, !.create = CreateIdle]

\* saveOffers: setItem resolved
OfferSaved ==
    /\ market.create.pc = "save"
    /\ market' = OfferSubmitted([market EXCEPT !.stored =
                     Put(@, market.create.capsuleId, market.create.updatedOffers)])
    /\ alerts' = alerts \cup {"Success!"}
    /\ UNCHANGED <<clock, verify, vproof, refresh, globalClock, wallet, timeSync, capture,
                   faults>>
    /\ UNCHANGED <<metadata, privacySettings, pc, gen, isGeneratingProof,
                   generatedCapsule, vaults, photos, generations, history,
                   platformOS, currentStep, probe, gallery, modal, save>>

\* saveOffers: setItem rejected; saveOffers logs the error and returns
OfferSaveFails(maxFailures) ==
    /\ market.create.pc = "save"
    /\ faults < maxFailures
    /\ faults' = faults + 1
    /\ market' = OfferSubmitted(market)
    /\ alerts' = alerts \cup {"Success!"}
    /\ UNCHANGED <<clock, verify, vproof, refresh, globalClock, wallet, timeSync, capture>>
    /\ UNCHANGED <<metadata, privacySettings, pc, gen, isGeneratingProof,
                   generatedCapsule, vaults, photos, generations, history,
                   platformOS, currentStep, probe, gallery, modal, save>>

OfferInputs == {JSONstringify(capsule) : capsule \in {LockedCapsule, PlainCapsule}}
TypesTried == {"time_data", "time_locked_data"}
AmountTexts == {"25", "0", "-5", "abc", "1.5"}

\* the effects of a render have run
EffectsRun == market.effectFor = verify.parsedCapsule

\* verification and offers, the clocks standing still before LockTime, so
\* that no time lock is over; an effect runs before anything else happens
NextOffers ==
    \/ loadOffers
    \/ EffectsRun /\ vproof.pc = "idle" /\ \E text \in OfferInputs : handleInputChange(text)
    \/ EffectsRun /\ verifyProof
    \/ EffectsRun /\ ProofSimulated
    \/ EffectsRun /\ \E outcome \in GlobalTimeOutcomes : VerifyTimeFetched(outcome)
    \/ EffectsRun /\ WalletVaultLoaded
    \/ EffectsRun /\ ~market.showOfferModal /\ verifyCloseModal
    \/ EffectsRun /\ \E visible \in BOOLEAN : setShowOfferModal(visible)
    \/ EffectsRun /\ \E type \in TypesTried : setSelectedDataType(type)
    \/ EffectsRun /\ \E text \in AmountTexts : setOfferAmount(text)
    \/ EffectsRun /\ createOffer(MaxOffers)
    \/ EffectsRun /\ OfferSaved
    \/ EffectsRun /\ OfferSaveFails(MaxFailures)

SpecOffers == InitGlobalTime /\ [][NextOffers]_vars

\* C25: every offer stored under '@offers_<id>' has capsule_id = id, and
\* every offer listed in the results of the parsed capsule has the
\* capsule_id of that capsule
C25_LedgersIsolated ==
    /\ \A id \in DOMAIN market.stored :
          \A k \in DOMAIN market.stored[id] : market.stored[id][k].capsule_id = id
    /\ (ResultsShown /\ EffectsRun) =>
          \A k \in DOMAIN market.offers :
              market.offers[k].capsule_id = verify.parsedCapsule[1].capsule_id


\* the list stored for a capsule, empty when there is no key
Ledger(stored, capsuleId) == IF Has(stored, capsuleId) THEN stored[capsuleId] ELSE <<>>

\* createOffer ends without having passed its checks
OfferRejected ==
    /\ market.create.pc = "idle"
    /\ createOffer(MaxOffers)
    /\ market'.create.pc = "idle"

\* C23: a createOffer that goes through appends to the stored ledger of the
\* parsed capsule exactly one offer, pending, with a positive amount and the
\* capsule's id, keeps the earlier offers of that ledger as they were, in
\* order, and changes no other ledger, nor the parsed capsule, the vaults or
\* the gallery collection; a rejected createOffer changes no stored data
C23_OffersOnlyAppend ==
    /\ [][(market.create.pc = "save" /\ OfferSaved) =>
            \* the capsule that was parsed when createOffer was called
            LET id  == market.create.capsuleId
                old == Ledger(market.stored, id)
                new == Ledger(market'.stored, id)
            IN  /\ Len(new) = Len(old) + 1
                /\ SubSeq(new, 1, Len(old)) = old
                /\ new[Len(new)].status = "pending"
                /\ new[Len(new)].amount > 0
                /\ new[Len(new)].capsule_id = id
                /\ \A other \in DOMAIN market.stored \ {id} :
                      Ledger(market'.stored, other) = market.stored[other]
                /\ DOMAIN market'.stored = DOMAIN market.stored \cup {id}
                /\ verify'.parsedCapsule = verify.parsedCapsule
                /\ UNCHANGED <<vaults, photos>>]_vars
    /\ [][(market.showOfferModal /\ OfferRejected) =>
            /\ market'.stored = market.stored
            /\ UNCHANGED <<vaults, photos>>]_vars


(***************************************************************************)
(* The camera of the make screen.  A pending call of                       *)
(* checkPermissionsAndProceed carries the metadata its closure sees.  The  *)
(* calls the effects and resetData schedule run within 300 ms, before the  *)
(* user can end a capture or press a button.                               *)
(***************************************************************************)

\* '@permissions_requested' and getCameraPermissionsAsync
PermissionSet == {"granted", "denied", "not requested"}

\* the call the focus effect schedules after 300 ms
FocusCall == [from |-> "focus", metadata |-> FALSE]

\* the cleanup of the focus effect: clearTimeout(timer)
ClearFocusTimer(calls) == calls \ {FocusCall}

\* a pending call runs; with the permission granted and no metadata in its
\* closure it goes on to captureMedia, takePicture and launchCameraAsync
checkPermissionsAndProceed(call, status) ==
    /\ call \in capture.calls
    /\ capture' = [capture EXCEPT
                     !.calls = @ \ {call},
                     !.open = IF ~call.metadata /\ status = "granted" THEN @ + 1 ELSE @]
    /\ alerts' = IF call.metadata \/ status = "granted" THEN alerts
                 ELSE IF status = "denied" THEN alerts \cup {"Camera Permission Required"}
                 ELSE alerts \cup {"Permissions Required"}
    /\ UNCHANGED <<clock, verify, vproof, refresh, globalClock, wallet, market, timeSync>>
    /\ UNCHANGED appVars

\* launchCameraAsync resolved with an asset: takePicture goes on to
\* processPhoto, the location lookup ending with locationData
takePicture(locationData, maxGenerations) ==
    /\ capture.open > 0
    /\ currentStep = "loading"
    /\ metadata = None
    /\ generations < maxGenerations
    /\ capture' = [capture EXCEPT !.open = @ - 1, !.calls = ClearFocusTimer(@)]
    /\ metadata' = Some(PhotoMetadata(CameraFile(generations + 1), DateNow,
                                      locationData, platformOS))
    /\ generations' = generations + 1
    /\ currentStep' = "settings"
    /\ UNCHANGED <<clock, privacySettings, pc, gen, isGeneratingProof,
                   generatedCapsule, alerts, vaults, photos, faults, history,
                   platformOS, verify, vproof, refresh, globalClock, wallet, market,
                   timeSync, probe, gallery, modal, save>>

\* launchCameraAsync resolved with canceled: router.back(), the screen loses
\* the focus
CameraCancelled ==
    /\ capture.open > 0
    /\ capture' = [capture EXCEPT !.open = @ - 1, !.focused = FALSE,
                                  !.calls = ClearFocusTimer(@)]
    /\ UNCHANGED <<clock, alerts, verify, vproof, refresh, globalClock, wallet, market,
                   timeSync>>
    /\ UNCHANGED appVars

\* the tab is focused again: the focus effect
tabFocused ==
    /\ ~capture.focused
    /\ capture' = [capture EXCEPT
                     !.focused = TRUE,
                     !.calls = IF currentStep = "loading" /\ metadata = None
                               THEN @ \cup {FocusCall} ELSE @]
    /\ UNCHANGED <<clock, alerts, verify, vproof, refresh, globalClock, wallet, market,
                   timeSync>>
    /\ UNCHANGED appVars

\* ProofSuccessModal onReset: ZKGen.resetData and the make screen's resetData
\* with its timer (whose closure sees the metadata of the capture just shown);
\* the focus effect runs again for the new currentStep and metadata
onReset ==
    /\ currentStep = "proof"
    /\ generatedCapsule # None
    /\ generatedCapsule' = None
    /\ isGeneratingProof' = FALSE
    /\ metadata' = None
    /\ currentStep' = "loading"
    /\ privacySettings' = IF privacySettings.saveForFuture.enabled
                          THEN privacySettings ELSE DefaultPrivacySettings
    /\ capture' = [capture EXCEPT
                     !.calls = (ClearFocusTimer(@)
                                  \cup {[from |-> "reset", metadata |-> metadata # None]})
                               \cup (IF capture.focused THEN {FocusCall} ELSE {})]
    /\ UNCHANGED <<clock, pc, gen, alerts, vaults, photos, generations, faults,
                   history, platformOS, verify, vproof, refresh, globalClock, wallet,
                   market, timeSync, probe, gallery, modal, save>>

\* no scheduled call is pending
Settled == capture.calls = {}

\* the make screen from its mount on: launches, captures, generations that
\* meet no failure, resets
NextCapture ==
    \/ \E call \in capture.calls, status \in PermissionSet :
           checkPermissionsAndProceed(call, status)
    \/ Settled /\ metadata = None /\ clock <= generations /\ Tick
    \/ Settled /\ clock > generations /\ \E locationData \in LocationSet :
                      takePicture(locationData, MaxGenerations)
    \/ Settled /\ CameraCancelled
    \/ Settled /\ tabFocused
    \/ Settled /\ StartGeneration
    \/ \E cid \in CidSet : UploadSucceeds(cid)
    \/ KeyReady
    \/ \E proof \in ProofSet : ProofSucceeds(proof, 1)
    \/ VaultWriteSucceeds
    \/ GalleryReadSucceeds
    \/ GalleryWriteSucceeds
    \/ Settled /\ onReset

SpecCapture == InitRevise /\ [][NextCapture]_vars

\* C24: launchCameraAsync is invoked only when no earlier invocation is still
\* open and no metadata of a captured photo exists
C24_OneCaptureInFlight ==
    [][(capture'.open > capture.open) => (capture.open = 0 /\ metadata = None)]_vars

====
